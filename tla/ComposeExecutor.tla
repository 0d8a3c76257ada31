-------------------------- MODULE ComposeExecutor ---------------------------
(***************************************************************************)
(* ComposeExecutor (adapters/compose/executor.py): measure the inputs with *)
(* ffprobe, let ffmpeg write one video, record it.  Every external command *)
(* is a child process that must not outlive the wait for it.               *)
(***************************************************************************)
EXTENDS Naturals

CONSTANTS
  ComposeJobs,     \* Jobs the worker hands to the executor, one at a time
  ComposeLosses    \* bound: failures of calls, files, commits, exceptions

ASSUME ComposeLossesAssumption == ComposeLosses \in Nat

\* The failure_code of a Job that ends before ffmpeg is started: an input that is
\* not the one recorded, no executable, a length that cannot be measured or a line
\* that ends after the video.
InputFailures == {"INPUT_UNRESOLVED"}
CommandFailures == {"BACKEND_UNAVAILABLE"}
ProbeFailures == {"BACKEND_UNAVAILABLE", "INPUT_UNRESOLVED"}
LengthFailures == {"COMPOSE_DURATION_EXCEEDED"}

\* What _render makes of the output directory, of ffmpeg and of its output.
RenderFailures == {"BACKEND_UNAVAILABLE", "EXECUTION_TIMEOUT", "EXECUTION_FAILED",
                   "ARTIFACT_WRITE_FAILED"}
ComposeFailures == InputFailures \cup CommandFailures \cup ProbeFailures
                   \cup LengthFailures \cup RenderFailures
ComposeReports == ComposeFailures \cup {"succeeded", "stopped", "EXECUTOR_ERROR"}

ComposePcs == {"idle", "loading", "probing", "rendering", "terminating", "recording",
               "closing", "ended"}

\* Why ffmpeg is being terminated: no report is to come after a shutdown.
Reasons == {"stopped", "EXECUTION_TIMEOUT", "shutdown"}

VARIABLES
  cpc,         \* [ComposeJobs -> ComposePcs]
  reason,      \* why the current ffmpeg is being terminated
  coutcome,    \* [ComposeJobs -> ComposeReports or "none"]
  ccancel,     \* [ComposeJobs -> BOOLEAN]: the cancel event
  encoder,     \* [ComposeJobs -> "absent", "running", "ok", "bad"]: ffmpeg
  probes,      \* Jobs with a running ffprobe or ffmpeg -version
  video,       \* [ComposeJobs -> "absent", "partial", "whole"]: the output file
  videoRows,   \* Jobs with a committed Artifact
  cprocess,    \* "up", "stopping" or "down"
  closses      \* failures so far

composeVars == <<cpc, reason, coutcome, ccancel, encoder, probes, video, videoRows,
                 cprocess, closses>>

ComposeTypeOK ==
  /\ cpc \in [ComposeJobs -> ComposePcs]
  /\ reason \in Reasons
  /\ coutcome \in [ComposeJobs -> ComposeReports \cup {"none"}]
  /\ ccancel \in [ComposeJobs -> BOOLEAN]
  /\ encoder \in [ComposeJobs -> {"absent", "running", "ok", "bad"}]
  /\ probes \in SUBSET ComposeJobs
  /\ video \in [ComposeJobs -> {"absent", "partial", "whole"}]
  /\ videoRows \in SUBSET ComposeJobs
  /\ cprocess \in {"up", "stopping", "down"}
  /\ closses \in 0 .. ComposeLosses

ComposeInit ==
  /\ cpc = [j \in ComposeJobs |-> "idle"]
  /\ reason = "stopped"
  /\ coutcome = [j \in ComposeJobs |-> "none"]
  /\ ccancel = [j \in ComposeJobs |-> FALSE]
  /\ encoder = [j \in ComposeJobs |-> "absent"]
  /\ probes = {}
  /\ video = [j \in ComposeJobs |-> "absent"]
  /\ videoRows = {}
  /\ cprocess = "up"
  /\ closses = 0

Composing(j) == cpc[j] \notin {"idle", "ended"}
ComposeGoto(j, p) == cpc' = [cpc EXCEPT ![j] = p]
ComposeLoss == closses < ComposeLosses /\ closses' = closses + 1

\* run returns o to the worker.
ComposeReturns(j, o) ==
  /\ ComposeGoto(j, "ended")
  /\ coutcome' = [coutcome EXCEPT ![j] = o]

\* Mutant: a failed or stopped ffmpeg leaves what it wrote.
KeepOutput(j) == video

\* _remove of the output.
RemoveOutput(j) == [video EXCEPT ![j] = "absent"]

-----------------------------------------------------------------------------
(* The coroutine.                                                          *)

ComposeBegin(j) ==
  /\ cprocess # "down"
  /\ cpc[j] = "idle"
  /\ \A k \in ComposeJobs : ~Composing(k)
  /\ ComposeGoto(j, "loading")
  /\ UNCHANGED <<reason, coutcome, ccancel, encoder, probes, video, videoRows, cprocess,
                 closses>>

\* _load_context, _resolve_input of every track and the executables; then the
\* first of the helper commands is started.
LoadTracks(j) ==
  /\ cpc[j] = "loading"
  /\ \/ /\ \E o \in InputFailures \cup CommandFailures : ComposeReturns(j, o)
        /\ UNCHANGED probes
     \/ /\ ComposeGoto(j, "probing")
        /\ probes' = probes \cup {j}
        /\ UNCHANGED coutcome
  /\ UNCHANGED <<reason, ccancel, encoder, video, videoRows, cprocess, closses>>

\* _capture ends with its command, by itself or killed at its time limit.  The
\* inputs are unreadable or a line ends after the video; a cancel request came
\* in between; or ffmpeg is started and creates its output.
Measure(j) ==
  /\ cpc[j] = "probing"
  /\ probes' = probes \ {j}
  /\ \/ /\ \E o \in ProbeFailures \cup LengthFailures : ComposeReturns(j, o)
        /\ UNCHANGED <<encoder, video>>
     \/ ccancel[j] /\ ComposeReturns(j, "stopped") /\ UNCHANGED <<encoder, video>>
     \/ /\ ~ccancel[j]
        /\ \/ /\ ComposeGoto(j, "rendering")
              /\ encoder' = [encoder EXCEPT ![j] = "running"]
              /\ video' = [video EXCEPT ![j] = "partial"]
              /\ UNCHANGED coutcome
           \/ /\ \E o \in {"ARTIFACT_WRITE_FAILED", "BACKEND_UNAVAILABLE"} : ComposeReturns(j, o)
              /\ UNCHANGED <<encoder, video>>
  /\ UNCHANGED <<reason, ccancel, videoRows, cprocess, closses>>

\* Mutant: any wait that ends without ffmpeg counts as a stop.
AlwaysStopped(j) == {"stopped"}

\* How asyncio.wait ends before ffmpeg does.
WhyOver(j) == {"EXECUTION_TIMEOUT"} \cup (IF ccancel[j] THEN {"stopped"} ELSE {})

\* asyncio.wait: the command ended ...
Encoded(j) ==
  /\ cpc[j] = "rendering"
  /\ encoder[j] \in {"ok", "bad"}
  /\ encoder' = [encoder EXCEPT ![j] = "absent"]
  /\ \/ /\ encoder[j] = "ok"
        /\ ComposeGoto(j, "recording")
        /\ UNCHANGED <<coutcome, video>>
     \/ /\ encoder[j] = "bad"
        /\ ComposeReturns(j, "EXECUTION_FAILED")
        /\ video' = RemoveOutput(j)
  /\ UNCHANGED <<reason, ccancel, probes, videoRows, cprocess, closses>>

\* ... or a cancel request or the time limit did not let it.
WaitOver(j) ==
  /\ cpc[j] = "rendering"
  /\ encoder[j] = "running"
  /\ reason' \in WhyOver(j)
  /\ ComposeGoto(j, "terminating")
  /\ UNCHANGED <<coutcome, ccancel, encoder, probes, video, videoRows, cprocess, closses>>

\* Mutant: the process is told to end and not waited for.
SignalOnly(j) == encoder

\* _terminate: SIGTERM, a grace period, SIGKILL; returns when it has ended.
Terminated(j) == [encoder EXCEPT ![j] = "absent"]

Terminate(j) ==
  /\ cpc[j] = "terminating"
  /\ encoder' = Terminated(j)
  /\ IF reason = "shutdown"
     THEN ComposeGoto(j, "ended") /\ cprocess' = "down" /\ UNCHANGED <<coutcome, video>>
     ELSE ComposeReturns(j, reason) /\ video' = RemoveOutput(j) /\ UNCHANGED cprocess
  /\ UNCHANGED <<reason, ccancel, probes, videoRows, closses>>

\* One row for the video.
PersistVideo(j) ==
  /\ cpc[j] = "recording"
  /\ videoRows' = videoRows \cup {j}
  /\ ComposeGoto(j, "closing")
  /\ UNCHANGED <<reason, coutcome, ccancel, encoder, probes, video, cprocess, closses>>

\* The end of `async with`.
LeaveSession(j) ==
  /\ cpc[j] = "closing"
  /\ ComposeReturns(j, "succeeded")
  /\ UNCHANGED <<reason, ccancel, encoder, probes, video, videoRows, cprocess, closses>>

-----------------------------------------------------------------------------
(* What goes wrong.                                                        *)

\* The output cannot be read: it stays.  The commit fails: it is discarded.
RecordFails(j) ==
  /\ cpc[j] = "recording"
  /\ ComposeLoss
  /\ ComposeReturns(j, "ARTIFACT_WRITE_FAILED")
  /\ video' \in {RemoveOutput(j), video}
  /\ UNCHANGED <<reason, ccancel, encoder, probes, videoRows, cprocess>>

\* `async with` closes the session after the commit: an exception there is
\* caught by the same clause, which discards the file and reports a failure.
CloseFails(j) ==
  /\ cpc[j] = "closing"
  /\ ComposeLoss
  /\ video' = RemoveOutput(j)
  /\ ComposeReturns(j, "ARTIFACT_WRITE_FAILED")
  /\ UNCHANGED <<reason, ccancel, encoder, probes, videoRows, cprocess>>

\* An exception outside of every clause: a database error while loading.
ComposeBreaks(j) ==
  /\ cpc[j] \in {"loading", "probing"}
  /\ ComposeLoss
  /\ ComposeReturns(j, "EXECUTOR_ERROR")
  /\ probes' = probes \ {j}
  /\ UNCHANGED <<reason, ccancel, encoder, video, videoRows, cprocess>>

\* ffmpeg ends while it is waited for, or before a signal reaches it.
EncoderEnds(j) ==
  /\ encoder[j] = "running"
  /\ \/ encoder' = [encoder EXCEPT ![j] = "ok"] /\ video' = [video EXCEPT ![j] = "whole"]
     \/ encoder' = [encoder EXCEPT ![j] = "bad"] /\ UNCHANGED video
  /\ UNCHANGED <<cpc, reason, coutcome, ccancel, probes, videoRows, cprocess, closses>>

AskCompose(j) ==
  /\ cprocess = "up"
  /\ Composing(j)
  /\ ccancel' = [ccancel EXCEPT ![j] = TRUE]
  /\ UNCHANGED <<cpc, reason, coutcome, encoder, probes, video, videoRows, cprocess,
                 closses>>

\* worker.stop cancels the task.  _run and _capture terminate their command
\* before they let the cancellation through; a commit may still happen.  When
\* it arrives while _terminate waits for a command that was stopped or ran out of
\* time, it only hastens SIGKILL: the executor goes on, and the worker with it.
ComposeShutdown ==
  /\ cprocess = "up"
  /\ \/ /\ \E j \in ComposeJobs : cpc[j] = "rendering" /\ ComposeGoto(j, "terminating")
        /\ reason' = "shutdown"
        /\ cprocess' = "stopping"
        /\ UNCHANGED <<probes, videoRows>>
     \/ /\ \A j \in ComposeJobs : cpc[j] \notin {"rendering", "terminating"}
        /\ cpc' = [j \in ComposeJobs |-> IF Composing(j) THEN "ended" ELSE cpc[j]]
        /\ cprocess' = "down"
        /\ probes' = {}
        /\ videoRows' \in {videoRows,
                           videoRows \cup {j \in ComposeJobs : cpc[j] = "recording"}}
        /\ UNCHANGED reason
     \/ /\ \E j \in ComposeJobs : cpc[j] \in {"probing", "terminating"}
        /\ cprocess' = "stopping"
        /\ UNCHANGED <<cpc, reason, probes, videoRows>>
  /\ UNCHANGED <<coutcome, ccancel, encoder, video, closses>>

ComposeNext ==
  \/ \E j \in ComposeJobs :
       \/ ComposeBegin(j)
       \/ LoadTracks(j)
       \/ Measure(j)
       \/ Encoded(j)
       \/ WaitOver(j)
       \/ Terminate(j)
       \/ PersistVideo(j)
       \/ LeaveSession(j)
       \/ RecordFails(j)
       \/ CloseFails(j)
       \/ ComposeBreaks(j)
       \/ EncoderEnds(j)
       \/ AskCompose(j)
  \/ ComposeShutdown

ComposeSpec == ComposeInit /\ [][ComposeNext]_composeVars

-----------------------------------------------------------------------------
(* Properties.                                                             *)

\* What the queue relies on, for every Job.  A failure reported after the commit
\* says nothing of the outputs: to the contract it is an executor error.
ComposeContract(j) ==
  IF coutcome[j] \notin ComposeFailures THEN coutcome[j]
  ELSE IF j \in videoRows THEN "EXECUTOR_ERROR" ELSE "BACKEND"

ComposeExecution == INSTANCE JobExecution WITH
  Jobs <- ComposeJobs,
  cancel <- ccancel,
  committed <- [j \in ComposeJobs |-> j \in videoRows],
  outcome <- [j \in ComposeJobs |-> ComposeContract(j)]

\* The compose executor keeps the contract of an executor, but for a session
\* that cannot be closed.
ComposeKeepsContract == ComposeExecution!Spec

\* No external command outlives the Job it was started for, however that ends:
\* by success, failure, time limit, cancel request or shutdown.
CommandsReaped ==
  \A j \in ComposeJobs : ~Composing(j) => encoder[j] = "absent" /\ j \notin probes

\* The row of a Job that did not fail has its whole file; and a stopped, timed
\* out or failed ffmpeg leaves none, even if it finished while it was being
\* terminated.
VideoMatchesRow ==
  \A j \in ComposeJobs :
    /\ j \in videoRows /\ coutcome[j] # "ARTIFACT_WRITE_FAILED" => video[j] = "whole"
    /\ coutcome[j] \in ComposeReports \ {"ARTIFACT_WRITE_FAILED"} =>
         (video[j] # "absent" <=> j \in videoRows)

ComposeSafe == CommandsReaped /\ VideoMatchesRow
=============================================================================
