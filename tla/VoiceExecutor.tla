--------------------------- MODULE VoiceExecutor ----------------------------
(***************************************************************************)
(* VoiceExecutor (adapters/voice/executor.py), its HTTP client (client.py) *)
(* and the voice-runner (tools/voice-runner), which starts one process per *)
(* request and has a time limit of its own.                                *)
(*                                                                         *)
(* The lines of a Job are spoken in order; each await is a step.  The      *)
(* client may stop waiting while the process of its request goes on.       *)
(***************************************************************************)
EXTENDS Naturals

CONSTANTS
  VoiceJobs,     \* Jobs the worker hands to the executor, one at a time
  Lines,         \* number of lines of each Job
  VoiceLosses    \* bound: failed calls, writes, commits and exceptions

ASSUME LinesAssumption == Lines \in Nat \ {0}
ASSUME VoiceLossesAssumption == VoiceLosses \in Nat

\* The failure_code of a Job that ends before its runner is asked: what the
\* snapshot lacks, and a reference recording that is not the one recorded.
SnapshotFailures == {"INPUT_UNRESOLVED"}
BindingFailures == {"INPUT_UNRESOLVED", "VOICE_REFERENCE_MISMATCH", "AUDIO_DECODE_FAILED"}

\* The runner does not answer, or does not offer the engine.
RunnerFailures == {"BACKEND_UNAVAILABLE"}

\* What _execute makes of what goes wrong with a line.
LineFailures == {"EXECUTION_TIMEOUT", "EXECUTION_FAILED", "VOICE_PAYLOAD_TOO_LARGE",
                 "BACKEND_DISCONNECTED", "AUDIO_DECODE_FAILED", "ARTIFACT_WRITE_FAILED"}
VoiceFailures == SnapshotFailures \cup BindingFailures \cup RunnerFailures \cup LineFailures
VoiceReports == VoiceFailures \cup {"succeeded", "stopped", "EXECUTOR_ERROR"}

VoicePcs == {"idle", "loading", "health", "between", "speaking", "verifying",
             "persisting", "finishing", "ended"}

\* A request to the runner, named by the process that serves it.
Processes == VoiceJobs \X (1 .. Lines) \X {"speech", "asr"}

VARIABLES
  vpc,        \* [VoiceJobs -> VoicePcs]
  spoken,     \* [VoiceJobs -> 0..Lines]: lines produced so far
  vreport,    \* what _execute returned
  voutcome,   \* [VoiceJobs -> VoiceReports or "none"]
  vcancel,    \* [VoiceJobs -> BOOLEAN]: the cancel event
  wavs,       \* [VoiceJobs -> SUBSET 1..Lines]: whole files of the Job
  voiceRows,  \* [VoiceJobs -> SUBSET 1..Lines]: committed Artifacts
  unverified, \* lines whose transcription got no answer
  procs,      \* SUBSET Processes: backends that run
  vprocess,   \* "up" or "down"
  vlosses     \* failures so far

voiceVars == <<vpc, spoken, vreport, voutcome, vcancel, wavs, voiceRows, unverified,
               procs, vprocess, vlosses>>

VoiceTypeOK ==
  /\ vpc \in [VoiceJobs -> VoicePcs]
  /\ spoken \in [VoiceJobs -> 0 .. Lines]
  /\ vreport \in VoiceReports
  /\ voutcome \in [VoiceJobs -> VoiceReports \cup {"none"}]
  /\ vcancel \in [VoiceJobs -> BOOLEAN]
  /\ wavs \in [VoiceJobs -> SUBSET (1 .. Lines)]
  /\ voiceRows \in [VoiceJobs -> SUBSET (1 .. Lines)]
  /\ unverified \in SUBSET (VoiceJobs \X (1 .. Lines))
  /\ procs \in SUBSET Processes
  /\ vprocess \in {"up", "down"}
  /\ vlosses \in 0 .. VoiceLosses

VoiceInit ==
  /\ vpc = [j \in VoiceJobs |-> "idle"]
  /\ spoken = [j \in VoiceJobs |-> 0]
  /\ vreport = "succeeded"
  /\ voutcome = [j \in VoiceJobs |-> "none"]
  /\ vcancel = [j \in VoiceJobs |-> FALSE]
  /\ wavs = [j \in VoiceJobs |-> {}]
  /\ voiceRows = [j \in VoiceJobs |-> {}]
  /\ unverified = {}
  /\ procs = {}
  /\ vprocess = "up"
  /\ vlosses = 0

Voicing(j) == vpc[j] \notin {"idle", "ended"}
VoiceGoto(j, p) == vpc' = [vpc EXCEPT ![j] = p]
VoiceLoss == vlosses < VoiceLosses /\ vlosses' = vlosses + 1
NoVoiceLoss == UNCHANGED vlosses

\* The line that is being produced, and the request for it.
Line(j) == spoken[j] + 1
Call(j) == <<j, Line(j), IF vpc[j] = "speaking" THEN "speech" ELSE "asr">>
Calling(j) == vpc[j] \in {"speaking", "verifying"}

\* A return of _execute, through the finally clause that closes the client.
VoiceReturns(j, r) == VoiceGoto(j, "finishing") /\ vreport' = r

\* Mutant: what was produced before the failure stays on disk.
KeepProduced(j) == wavs[j]

\* _discard_files removes the files of the lines produced so far.
DiscardProduced(j) == wavs[j] \ (1 .. spoken[j])

\* Everything stored so far goes, and the Job is reported as r.
Discard(j, r) ==
  /\ VoiceReturns(j, r)
  /\ wavs' = [wavs EXCEPT ![j] = DiscardProduced(j)]

-----------------------------------------------------------------------------
(* The coroutine.                                                          *)

\* The worker takes the next Job when the one before has been reported.
VoiceBegin(j) ==
  /\ vprocess = "up"
  /\ vpc[j] = "idle"
  /\ \A k \in VoiceJobs : ~Voicing(k)
  /\ VoiceGoto(j, "loading")
  /\ UNCHANGED <<spoken, vreport, voutcome, vcancel, wavs, voiceRows, unverified, procs,
                 vprocess, vlosses>>

\* _load_context: the snapshot and the reference recordings match their hashes,
\* or the Job ends before there is a client.
LoadVoices(j) ==
  /\ vpc[j] = "loading"
  /\ \/ VoiceGoto(j, "health") /\ UNCHANGED voutcome
     \/ /\ VoiceGoto(j, "ended")
        /\ \E o \in SnapshotFailures \cup BindingFailures :
             voutcome' = [voutcome EXCEPT ![j] = o]
  /\ UNCHANGED <<spoken, vreport, vcancel, wavs, voiceRows, unverified, procs, vprocess,
                 vlosses>>

\* _record_backend_facts, and the cancel request that came before it is done.
CheckRunner(j) ==
  /\ vpc[j] = "health"
  /\ \/ \E o \in RunnerFailures : VoiceReturns(j, o)
     \/ vcancel[j] /\ VoiceReturns(j, "stopped")
     \/ ~vcancel[j] /\ VoiceGoto(j, "between") /\ UNCHANGED vreport
  /\ UNCHANGED <<spoken, voutcome, vcancel, wavs, voiceRows, unverified, procs, vprocess,
                 vlosses>>

\* A cancel request is looked at between two lines, and not after the last.
StopBetweenLines(j) ==
  /\ vpc[j] = "between"
  /\ vcancel[j]
  /\ spoken[j] < Lines
  /\ Discard(j, "stopped")
  /\ UNCHANGED <<spoken, voutcome, vcancel, voiceRows, unverified, procs, vprocess, vlosses>>

\* POST /v1/speech: the runner starts a process for the line.
Speak(j) ==
  /\ vpc[j] = "between"
  /\ ~vcancel[j]
  /\ spoken[j] < Lines
  /\ VoiceGoto(j, "speaking")
  /\ procs' = procs \cup {<<j, Line(j), "speech">>}
  /\ UNCHANGED <<spoken, vreport, voutcome, vcancel, wavs, voiceRows, unverified, vprocess,
                 vlosses>>

\* The audio comes back, is padded and written.  It is verified if the Job
\* asks for that: the next request carries it to a process of its own.
Spoken(j) ==
  /\ vpc[j] = "speaking"
  /\ Call(j) \in procs
  /\ wavs' = [wavs EXCEPT ![j] = @ \cup {Line(j)}]
  /\ \/ /\ VoiceGoto(j, "verifying")
        /\ procs' = (procs \ {Call(j)}) \cup {<<j, Line(j), "asr">>}
        /\ UNCHANGED spoken
     \/ /\ VoiceGoto(j, "between")
        /\ procs' = procs \ {Call(j)}
        /\ spoken' = [spoken EXCEPT ![j] = @ + 1]
  /\ UNCHANGED <<vreport, voutcome, vcancel, voiceRows, unverified, vprocess, vlosses>>

\* The transcript comes back and is compared with the expected reading.
Verified(j) ==
  /\ vpc[j] = "verifying"
  /\ Call(j) \in procs
  /\ VoiceGoto(j, "between")
  /\ procs' = procs \ {Call(j)}
  /\ spoken' = [spoken EXCEPT ![j] = @ + 1]
  /\ UNCHANGED <<vreport, voutcome, vcancel, wavs, voiceRows, unverified, vprocess, vlosses>>

AllSpoken(j) ==
  /\ vpc[j] = "between"
  /\ spoken[j] = Lines
  /\ VoiceGoto(j, "persisting")
  /\ UNCHANGED <<spoken, vreport, voutcome, vcancel, wavs, voiceRows, unverified, procs,
                 vprocess, vlosses>>

\* Mutant: a failure to close the session counts as a failure to record.
CloseRaises(j) ==
  \/ VoiceReturns(j, "succeeded") /\ UNCHANGED wavs
  \/ Discard(j, "ARTIFACT_WRITE_FAILED")

\* A failure to close the session after the commit is only logged.
CloseSession(j) == VoiceReturns(j, "succeeded") /\ UNCHANGED wavs

\* One transaction for the Artifacts and verifications of all lines.
PersistLines(j) ==
  /\ vpc[j] = "persisting"
  /\ voiceRows' = [voiceRows EXCEPT ![j] = 1 .. spoken[j]]
  /\ CloseSession(j)
  /\ UNCHANGED <<spoken, voutcome, vcancel, unverified, procs, vprocess, vlosses>>

CloseBackend(j) ==
  /\ vpc[j] = "finishing"
  /\ voutcome' = [voutcome EXCEPT ![j] = vreport]
  /\ VoiceGoto(j, "ended")
  /\ UNCHANGED <<spoken, vreport, vcancel, wavs, voiceRows, unverified, procs, vprocess,
                 vlosses>>

-----------------------------------------------------------------------------
(* What goes wrong.                                                        *)

\* What _payload makes of an answer that is no success.  The process has ended:
\* by itself (4xx, 502), or killed at the runner's time limit (504).
Refusals == LineFailures \ {"ARTIFACT_WRITE_FAILED"}

\* Mutant: the handler of the runner returns without waiting for its process.
LeaveProcess(j) == procs

\* run_worker waits for the process, or kills it.
ReapProcess(j) == procs \ {Call(j)}

\* The speech fails, or what came back is too large or no audio, or cannot be
\* written: the whole Job fails, and what was stored is removed.
SpeechFails(j) ==
  /\ vpc[j] = "speaking"
  /\ Call(j) \in procs
  /\ VoiceLoss
  /\ procs' = ReapProcess(j)
  /\ \E r \in Refusals \cup {"ARTIFACT_WRITE_FAILED"} : Discard(j, r)
  /\ UNCHANGED <<spoken, voutcome, vcancel, voiceRows, unverified, vprocess>>

\* The client stops waiting: its time limit, or a broken connection.  The
\* process of the request is not told.
SpeechGivenUp(j) ==
  /\ vpc[j] = "speaking"
  /\ VoiceLoss
  /\ \E r \in {"EXECUTION_TIMEOUT", "BACKEND_DISCONNECTED"} : Discard(j, r)
  /\ procs' \in {procs, procs \ {Call(j)}}
  /\ UNCHANGED <<spoken, voutcome, vcancel, voiceRows, unverified, vprocess>>

\* A transcription that fails or is given up leaves the line unverified and
\* the Job goes on.
AsrFails(j) ==
  /\ vpc[j] = "verifying"
  /\ VoiceLoss
  /\ procs' \in {procs, procs \ {Call(j)}}
  /\ unverified' = unverified \cup {<<j, Line(j)>>}
  /\ VoiceGoto(j, "between")
  /\ spoken' = [spoken EXCEPT ![j] = @ + 1]
  /\ UNCHANGED <<vreport, voutcome, vcancel, wavs, voiceRows, vprocess>>

PersistFails(j) ==
  /\ vpc[j] = "persisting"
  /\ VoiceLoss
  /\ Discard(j, "ARTIFACT_WRITE_FAILED")
  /\ UNCHANGED <<spoken, voutcome, vcancel, voiceRows, unverified, procs, vprocess>>

\* An exception no clause names, also one of closing the client: the queue
\* reports it, and what was stored stays.
VoiceBreaks(j) ==
  /\ Voicing(j)
  /\ vpc[j] # "persisting"
  /\ VoiceLoss
  /\ voutcome' = [voutcome EXCEPT ![j] = "EXECUTOR_ERROR"]
  /\ VoiceGoto(j, "ended")
  /\ UNCHANGED <<spoken, vreport, vcancel, wavs, voiceRows, unverified, procs, vprocess>>

\* A process nobody waits for ends on its own, or at the runner's time limit.
OrphanEnds ==
  /\ \E p \in procs :
       /\ ~(Calling(p[1]) /\ p = Call(p[1]))
       /\ procs' = procs \ {p}
  /\ UNCHANGED <<vpc, spoken, vreport, voutcome, vcancel, wavs, voiceRows, unverified,
                 vprocess, vlosses>>

AskVoice(j) ==
  /\ vprocess = "up"
  /\ Voicing(j)
  /\ vcancel' = [vcancel EXCEPT ![j] = TRUE]
  /\ UNCHANGED <<vpc, spoken, vreport, voutcome, wavs, voiceRows, unverified, procs,
                 vprocess, vlosses>>

\* worker.stop cancels the task: no clause removes the files.  A commit that is
\* under way in the database thread may still happen.
VoiceShutdown ==
  /\ vprocess = "up"
  /\ vprocess' = "down"
  /\ vpc' = [j \in VoiceJobs |-> IF Voicing(j) THEN "ended" ELSE vpc[j]]
  /\ \/ UNCHANGED voiceRows
     \/ \E j \in VoiceJobs : /\ vpc[j] = "persisting"
                             /\ voiceRows' = [voiceRows EXCEPT ![j] = 1 .. spoken[j]]
  /\ UNCHANGED <<spoken, vreport, voutcome, vcancel, wavs, unverified, procs, vlosses>>

VoiceNext ==
  \/ \E j \in VoiceJobs :
       \/ VoiceBegin(j)
       \/ LoadVoices(j)
       \/ CheckRunner(j)
       \/ StopBetweenLines(j)
       \/ Speak(j)
       \/ Spoken(j)
       \/ Verified(j)
       \/ AllSpoken(j)
       \/ PersistLines(j)
       \/ CloseBackend(j)
       \/ SpeechFails(j)
       \/ SpeechGivenUp(j)
       \/ AsrFails(j)
       \/ PersistFails(j)
       \/ VoiceBreaks(j)
       \/ AskVoice(j)
  \/ OrphanEnds
  \/ VoiceShutdown

VoiceSpec == VoiceInit /\ [][VoiceNext]_voiceVars

-----------------------------------------------------------------------------
(* Properties.                                                             *)

\* What the queue relies on, for every Job.
VoiceContract(o) == IF o \in VoiceFailures THEN "BACKEND" ELSE o

VoiceExecution == INSTANCE JobExecution WITH
  Jobs <- VoiceJobs,
  cancel <- vcancel,
  committed <- [j \in VoiceJobs |-> voiceRows[j] # {}],
  outcome <- [j \in VoiceJobs |-> VoiceContract(voutcome[j])]

\* The voice executor keeps the contract of an executor: success only with all
\* rows committed, a failure or a stop only with none.
VoiceKeepsContract == VoiceExecution!Spec

\* A row always has its file; a Job that has been reported, and did not break,
\* has a file for no line without a row: a Shot is spoken as a whole or not.
SpokenAsAWhole ==
  \A j \in VoiceJobs :
    /\ voiceRows[j] \in {{}, 1 .. Lines}
    /\ voiceRows[j] \subseteq wavs[j]
    /\ voutcome[j] \notin {"none", "EXECUTOR_ERROR"} => wavs[j] = voiceRows[j]

\* The reports of a Job whose own request may still be served.
MayLeaveBackend == {"EXECUTION_TIMEOUT", "BACKEND_DISCONNECTED", "EXECUTOR_ERROR"}

\* A backend that runs belongs to the request being waited for; one that does
\* not was given up: its line is marked unverified, its Job reports the loss of
\* the runner, or the program went down.  Only so can two backends share the GPU.
BackendsAccounted ==
  \A p \in procs :
    \/ Calling(p[1]) /\ p = Call(p[1])
    \/ p[3] = "asr" /\ <<p[1], p[2]>> \in unverified
    \/ vpc[p[1]] = "finishing" /\ vreport \in MayLeaveBackend
    \/ voutcome[p[1]] \in MayLeaveBackend
    \/ vprocess = "down"

VoiceSafe == SpokenAsAWhole /\ BackendsAccounted
=============================================================================
