-------------------------------- MODULE AppDocs --------------------------------
(***************************************************************************)
(* What the comments of the app say, and the code does not do.             *)
(***************************************************************************)
EXTENDS MCApp

(* "downloading -- user pressed Download", "error" (App.swift, State): once *)
(* ensureAvailable has returned, nobody is at work and the main actor has  *)
(* nothing left to run, the view does not go on showing a download.        *)
DownloadingMeansDownload ==
  state = "downloading" => call # "returned" \/ main # << >> \/ workers # {}

(* "pass -1 to force a HEAD probe on every cold start" (Downloader.swift): *)
(* with the size unknown, a process that got its file has asked for it.    *)
ProbedOnColdStart == known = Unknown /\ outcome = "ok" => probed
=============================================================================
