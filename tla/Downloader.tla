------------------------------ MODULE Downloader ------------------------------
(***************************************************************************)
(* Downloader.ensureAvailable (Downloader.swift): the model file and its   *)
(* .meta sidecar on disk, the decision to fetch, and the URLSession that   *)
(* fetches.  A file is its size.  The server sends whatever it likes; the  *)
(* process may die between any two steps and come back with another        *)
(* expectedSize.                                                           *)
(*                                                                         *)
(* The delegate's methods run one at a time on the session's own queue;    *)
(* what they hand to the main actor is put at the end of its queue, main.  *)
(*                                                                         *)
(* A definition marked mutant is a plausible slip in the one that follows: *)
(* PROJECT.json names the property that catches it.                        *)
(***************************************************************************)
EXTENDS Integers, Sequences

CONSTANTS
  Size,         \* sizes of files
  KnownSize,    \* what QwenModel.expectedSize may be: Unknown, or a size
  MaxWrites     \* bound: progress reports of a download

Unknown == -1   \* an expectedSize to be asked for; also the size of no file

ASSUME SizeAssumption ==
  Size \subseteq Nat \ {0} /\ KnownSize \subseteq Size \union {Unknown} /\ MaxWrites \in Nat

VARIABLES
  file, meta,             \* on disk: the sizes of the file and in the sidecar
  known,                  \* model.expectedSize
  call,                   \* where the call of ensureAvailable is
  expected,               \* the size the download must have
  session, writes,        \* the URLSession, and the reports it has made
  fired, outcome,         \* OnceContinuation, and what it resumed with
  resumes, probed,        \* observed: resumes of the continuation; a HEAD was sent
  main                    \* the main actor's queue

disk     == <<file, meta>>
fetching == <<session, writes, fired, resumes>>
download == <<disk, known, call, expected, fetching, outcome, probed, main>>

Post(job) == main' = Append(main, job)

DownloadInit ==
  /\ file = Unknown /\ meta = Unknown
  /\ known \in KnownSize
  /\ call = "none" /\ expected = Unknown /\ outcome = "none" /\ probed = FALSE
  /\ session = "none" /\ writes = 0 /\ fired = FALSE /\ resumes = 0
  /\ main = << >>

-----------------------------------------------------------------------------

isCached == file # Unknown /\ known > 0 /\ file = known

downloaded(size, stored, exp) == (stored > 0 /\ size = stored) \/ (exp > 0 /\ size = exp)

\* Up to the first await: nothing to do, or the size to expect
ensureAvailable ==
  /\ call = "none"
  /\ LET done == isCached \/ downloaded(file, meta, known)
     IN /\ call' = IF done THEN "resumed" ELSE IF known > 0 THEN "sidecar" ELSE "probe"
        /\ outcome' = IF done THEN "ok" ELSE "none"
  /\ expected' = known
  /\ probed' = FALSE
  /\ UNCHANGED <<disk, known, fetching, main>>

\* mutant: an answer without a length counts
ProbeAny ==
  /\ call = "probe"
  /\ probed' = TRUE
  /\ \/ /\ expected' \in Size \union {0}
        /\ call' = "sidecar" /\ UNCHANGED outcome
     \/ /\ call' = "resumed" /\ outcome' = "error"
        /\ UNCHANGED expected
  /\ UNCHANGED <<disk, known, fetching, main>>

\* contentLength: HEAD answers with a size, or fails
Probe ==
  /\ call = "probe"
  /\ probed' = TRUE
  /\ \/ /\ expected' \in Size
        /\ call' = "sidecar" /\ UNCHANGED outcome
     \/ /\ call' = "resumed" /\ outcome' = "error"
        /\ UNCHANGED expected
  /\ UNCHANGED <<disk, known, fetching, main>>

writeMeta ==
  /\ call = "sidecar"
  /\ \/ meta' = expected /\ call' = "perform" /\ UNCHANGED outcome
     \/ call' = "resumed" /\ outcome' = "error" /\ UNCHANGED meta
  /\ UNCHANGED <<file, known, expected, fetching, probed, main>>

performDownload ==
  /\ call = "perform" /\ call' = "waiting"
  /\ session' = "running" /\ writes' = 0
  /\ fired' = FALSE /\ resumes' = 0
  /\ UNCHANGED <<disk, known, expected, outcome, probed, main>>

\* mutant: whoever comes resumes
FireAlways(result) ==
  /\ fired' = TRUE
  /\ resumes' = resumes + 1
  /\ call' = "resumed" /\ outcome' = result

\* OnceContinuation.fire, under its lock
fire(result) ==
  /\ fired' = TRUE
  /\ IF fired THEN UNCHANGED <<resumes, call, outcome>>
     ELSE resumes' = resumes + 1 /\ call' = "resumed" /\ outcome' = result

-----------------------------------------------------------------------------
(* DownloadDelegate                                                        *)

didWriteData ==
  /\ session = "running" /\ writes < MaxWrites
  /\ writes' = writes + 1
  /\ Post([do |-> "progress"])
  /\ UNCHANGED <<disk, known, call, expected, session, fired, resumes, outcome, probed>>

\* didFinishDownloadingTo: the old file goes first, if it can be removed
removeItem ==
  /\ session = "running" /\ session' = "moving"
  /\ file' \in {file, Unknown}
  /\ UNCHANGED <<meta, known, call, expected, writes, fired, resumes, outcome, probed, main>>

moveItem ==
  /\ session = "moving"
  /\ \/ file = Unknown /\ file' \in Size /\ session' = "moved"
     \/ session' = "unmoved" /\ UNCHANGED file
  /\ UNCHANGED <<meta, known, call, expected, writes, fired, resumes, outcome, probed, main>>

\* mutant: whatever came is the model
FinishUnchecked ==
  /\ session \in {"moved", "unmoved"} /\ session' = "invalid"
  /\ fire("ok")
  /\ Post([do |-> "progress"])
  /\ UNCHANGED <<disk, known, expected, writes, probed>>

\* The size check; a file of another size stays where it is
didFinish ==
  /\ session \in {"moved", "unmoved"} /\ session' = "invalid"
  /\ IF session = "moved" /\ file = expected
     THEN fire("ok") /\ Post([do |-> "progress"])
     ELSE fire("error") /\ UNCHANGED main
  /\ UNCHANGED <<disk, known, expected, writes, probed>>

\* The transfer failed; or the end of a finished one, an error when the
\* invalidated session cancels it
didCompleteWithError ==
  /\ session \in {"running", "invalid"} /\ session' = "over"
  /\ \/ fire("error")
     \/ session = "invalid" /\ UNCHANGED <<fired, resumes, call, outcome>>
  /\ UNCHANGED <<disk, known, expected, writes, probed, main>>

\* The awaiting code runs on a pool thread, and from there the caller's
\* continuation is handed to the main actor
Returned ==
  /\ call = "resumed" /\ call' = "returned"
  /\ Post([do |-> "fetched"])
  /\ UNCHANGED <<disk, known, expected, fetching, outcome, probed>>

Download ==
  \/ Probe \/ writeMeta \/ performDownload
  \/ didWriteData \/ removeItem \/ moveItem \/ didFinish \/ didCompleteWithError
  \/ Returned

\* The process ends anywhere; the next one may expect another size
Relaunch ==
  /\ known' \in KnownSize
  /\ call' = "none" /\ expected' = Unknown /\ outcome' = "none" /\ probed' = FALSE
  /\ session' = "none" /\ writes' = 0 /\ fired' = FALSE /\ resumes' = 0
  /\ main' = << >>
  /\ UNCHANGED disk

-----------------------------------------------------------------------------

(* The continuation of a download is resumed exactly once, though the end  *)
(* of a transfer and its size check both report (performDownload asks for  *)
(* that: "resume() must be called exactly once").                          *)
ResumedOnce ==
  /\ resumes <= 1
  /\ session \in {"invalid", "over"} => resumes = 1
  /\ session # "none" /\ call # "waiting" => resumes = 1
=============================================================================
