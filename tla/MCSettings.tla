----------------------------- MODULE MCSettings -----------------------------
(* An instance of SettingsStore and SettingsBuilder for TLC.                *)
EXTENDS SettingsBuilder, SequencesExt

Nodes == {n \in [kind : Kinds, arg : {Nothing, Empty, "given"}] :
            n.kind = "by_date" => n.arg # Empty}   \* a date is validated
MCFilterGroups == [mode : {"AND", "OR"}, chain : SeqOf(Nodes, 2)]
MCKeywords == SeqOf({"/", "a"}, 4)
MCGenaiInputs == [provider : Providers, api_key : {Nothing, Empty}]

Symmetry == Permutations(Handlers) \cup Permutations(Users) \cup Permutations(Templates)
=============================================================================
