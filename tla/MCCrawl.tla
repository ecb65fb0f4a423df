------------------------------ MODULE MCCrawl ------------------------------
(* Instances of CrawlService for TLC.                                       *)
EXTENDS CrawlService

NoFaults == {}
Crashes == {"aborted"}
AllFaults == {"handler", "killed", "aborted"}
ListModes == {"sitemap", "shallow"}
StreamModes == {"deep", "crawler"}
ScrapeModes == {"crawler", "scraper"}

(* Ids are interchangeable: used by the safety runs only.                   *)
HandlerSymmetry == Permutations(Handlers)
JobSymmetry == Permutations(Jobs) \cup Permutations(Handlers)
=============================================================================
