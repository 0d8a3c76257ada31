----------------------------- MODULE Followups ------------------------------
(***************************************************************************)
(* Reservations of follow-up Jobs (job_followups.py): an image Job and the *)
(* reservation of its video Job are committed together; after every tick   *)
(* the queue worker sweeps the pending reservations whose image Job has    *)
(* ended and submits, skips or fails each of them, across failures at any  *)
(* commit, a process end and a restart.                                    *)
(***************************************************************************)
EXTENDS Naturals, Sequences, FiniteSets

CONSTANTS
  Images,        \* image Jobs, numbered in the order they are submitted
  SweepLimit,    \* SWEEP_LIMIT
  MaxFailures    \* bound: failed commits and process ends

ASSUME ImagesAssumption == Images \subseteq Nat /\ IsFiniteSet(Images)
ASSUME LimitsAssumption == SweepLimit \in Nat \ {0} /\ MaxFailures \in Nat

Ended == {"succeeded", "failed", "cancelled"}
Decided == {"submitted", "skipped", "failed"}

\* Where the worker's loop stands: with _process_next, before and in the sweep,
\* and in the dispatch of one reservation.
Places == {"tick", "executing", "sweep", "next", "submitting", "recording"}

VARIABLES
  image,         \* [Images -> state of the image Job]
  output,        \* [Images -> "none", "kept" or "trashed"]: its image Artifact
  standing,      \* [Images -> state of the reservation]
  linked,        \* [Images -> BOOLEAN]: child_job_id
  videos,        \* [Images -> Nat]: rows of the reserved video Job
  at,            \* Places
  left,          \* reservations this sweep has selected and not yet finished
  source,        \* app.state.reference_source is set
  api,           \* "up" or "down"
  failures       \* failures so far

reservations == <<standing, linked, videos>>
followupVars == <<image, output, reservations, at, left, source, api, failures>>

FollowupTypeOK ==
  /\ image \in [Images -> {"none", "queued", "active"} \cup Ended]
  /\ output \in [Images -> {"none", "kept", "trashed"}]
  /\ standing \in [Images -> {"none", "pending"} \cup Decided]
  /\ linked \in [Images -> BOOLEAN]
  /\ videos \in [Images -> Nat]
  /\ at \in Places
  /\ left \in Seq(Images)
  /\ at \in {"submitting", "recording"} => left # <<>>
  /\ source \in BOOLEAN
  /\ api \in {"up", "down"}
  /\ failures \in Nat

FollowupInit ==
  /\ image = [i \in Images |-> "none"]
  /\ output = [i \in Images |-> "none"]
  /\ standing = [i \in Images |-> "none"]
  /\ linked = [i \in Images |-> FALSE]
  /\ videos = [i \in Images |-> 0]
  /\ at = "tick"
  /\ left = <<>>
  /\ source = FALSE
  /\ api = "up"
  /\ failures = 0

Up == api = "up"
FailureCounted == failures < MaxFailures /\ failures' = failures + 1

-----------------------------------------------------------------------------
(* Requests.                                                               *)

\* reserve: the reservation is a record of the image Job's own commit.
Submission(i) ==
  /\ Up
  /\ image[i] = "none"
  /\ \A k \in Images : k < i => image[k] # "none"
  /\ image' = [image EXCEPT ![i] = "queued"]
  /\ standing' = [standing EXCEPT ![i] = "pending"]
  /\ UNCHANGED <<output, linked, videos, at, left, source, api, failures>>

CancelQueued(i) ==
  /\ Up
  /\ image[i] = "queued"
  /\ image' = [image EXCEPT ![i] = "cancelled"]
  /\ UNCHANGED <<output, reservations, at, left, source, api, failures>>

\* Trash, restore and purge of the image.
Organize(i) ==
  /\ Up
  /\ \/ output[i] = "kept" /\ output' = [output EXCEPT ![i] = "trashed"]
     \/ /\ output[i] = "trashed"
        /\ \E o \in {"kept", "none"} : output' = [output EXCEPT ![i] = o]
  /\ UNCHANGED <<image, reservations, at, left, source, api, failures>>

\* The reference adapter is there only some time after the worker has started.
SourceReady ==
  /\ Up /\ ~source
  /\ source' = TRUE
  /\ UNCHANGED <<image, output, reservations, at, left, api, failures>>

-----------------------------------------------------------------------------
(* _process_next, as far as reservations see it.                           *)

ClaimImage(i) ==
  /\ Up /\ at = "tick"
  /\ image[i] = "queued"
  /\ image' = [image EXCEPT ![i] = "active"]
  /\ at' = "executing"
  /\ UNCHANGED <<output, reservations, left, source, api, failures>>

FinalizeImage(i) ==
  /\ Up /\ at = "executing"
  /\ image[i] = "active"
  /\ \E s \in Ended :
       /\ image' = [image EXCEPT ![i] = s]
       /\ output' = [output EXCEPT ![i] = IF s = "succeeded" THEN "kept" ELSE @]
  /\ at' = "sweep"
  /\ UNCHANGED <<reservations, left, source, api, failures>>

\* A Job of another kind, none at all, or an exception.
OtherTick ==
  /\ Up /\ at = "tick"
  /\ at' = "sweep"
  /\ UNCHANGED <<image, output, reservations, left, source, api, failures>>

-----------------------------------------------------------------------------
(* dispatch_pending_followups.                                             *)

\* Mutant: reservations are picked up whatever their image Job is doing.
DueAlways(i) == standing[i] = "pending"

\* A pending reservation whose image Job has ended.
Due(i) == standing[i] = "pending" /\ image[i] \in Ended

\* The oldest due reservations, at most SweepLimit, in the order they were made.
IsSelection(s) ==
  LET due == {i \in Images : Due(i)}
      chosen == {s[n] : n \in DOMAIN s}
  IN /\ \A m, n \in DOMAIN s : m < n => s[m] < s[n]
     /\ chosen \subseteq due
     /\ \A i \in due \ chosen : Len(s) = SweepLimit /\ \A k \in chosen : k < i

Select ==
  /\ Up /\ at = "sweep"
  /\ \E n \in 0 .. SweepLimit : \E s \in [1 .. n -> Images] :
       /\ IsSelection(s)
       /\ IF n = 0 \/ ~source THEN at' = "tick" /\ UNCHANGED left
          ELSE at' = "next" /\ left' = s
  /\ UNCHANGED <<image, output, reservations, source, api, failures>>

SweepEnds ==
  /\ Up /\ at = "next" /\ left = <<>>
  /\ at' = "tick"
  /\ UNCHANGED <<image, output, reservations, left, source, api, failures>>

-----------------------------------------------------------------------------
(* _dispatch_one.                                                          *)

Current == Head(left)
Dispatching(place) == Up /\ at = place /\ left # <<>>
NextOne == at' = "next" /\ left' = Tail(left)

\* _finish_followup, committed.
FinishFollowup(s) ==
  /\ standing' = [standing EXCEPT ![Current] = s]
  /\ NextOne
  /\ UNCHANGED <<image, output, linked, videos, source, api, failures>>

\* Mutant: the state of the image Job is taken for that of the reservation.
StateOfImage(i) == image[i]

SkipState(i) == "skipped"

\* The reservation and its image Job are read again: a failed or cancelled one
\* skips the video, a succeeded one needs an image that is not in the trash.
\* Nobody else settles reservations, so what was selected is still due.
Dispatch ==
  /\ Dispatching("next")
  /\ Due(Current)
  /\ \/ /\ image[Current] # "succeeded"
        /\ FinishFollowup(SkipState(Current))
     \/ /\ image[Current] = "succeeded" /\ output[Current] # "kept"
        /\ FinishFollowup("failed")
     \/ /\ image[Current] = "succeeded" /\ output[Current] = "kept"
        /\ at' = "submitting"
        /\ UNCHANGED <<image, output, reservations, left, source, api, failures>>

\* Mutant: the new state is left for a commit of its own.
StateApart(i) == standing[i]

\* The state the reservation takes in the commit of its video Job.
StateWithJob(i) == "submitted"

\* _submit_generation_job with link_child: the video Job, the state of the
\* reservation and the link are one commit.  What follows it may still raise.
Commit ==
  /\ videos' = [videos EXCEPT ![Current] = @ + 1]
  /\ standing' = [standing EXCEPT ![Current] = StateWithJob(Current)]
  /\ linked' = [linked EXCEPT ![Current] = TRUE]

SubmitVideo ==
  /\ Dispatching("submitting")
  /\ Commit
  /\ \/ NextOne
     \/ at' = "recording" /\ UNCHANGED left
  /\ UNCHANGED <<image, output, source, api, failures>>

\* Validation, the reference API or the commit fails; everything is rolled back.
SubmitRejected ==
  /\ Dispatching("submitting")
  /\ at' = "recording"
  /\ UNCHANGED <<image, output, reservations, left, source, api, failures>>

\* Mutant: a failure is only logged.
Forgotten(i) == standing[i]

\* _record_submit_failure: what the reservation is read to be decides.
AfterFailure(i) == IF standing[i] = "submitted" THEN "submitted" ELSE "failed"

RecordFailure ==
  /\ Dispatching("recording")
  /\ FinishFollowup(AfterFailure(Current))

\* A read or a commit of the dispatch raises: logged, and the reservation is
\* left as it is.
DispatchFails ==
  /\ \E p \in {"next", "recording"} : Dispatching(p)
  /\ FailureCounted
  /\ NextOne
  /\ UNCHANGED <<image, output, reservations, source, api>>

-----------------------------------------------------------------------------
(* The process ends, possibly while a commit is under way, and starts again. *)

StopApi ==
  /\ Up
  /\ FailureCounted
  /\ api' = "down"
  /\ IF at = "submitting" THEN Commit \/ UNCHANGED reservations
     ELSE UNCHANGED reservations
  /\ at' = "tick" /\ left' = <<>> /\ source' = FALSE
  /\ UNCHANGED <<image, output>>

\* recover_interrupted_jobs
RestartApi ==
  /\ ~Up
  /\ api' = "up"
  /\ image' = [i \in Images |-> IF image[i] = "active" THEN "failed" ELSE image[i]]
  /\ UNCHANGED <<output, reservations, at, left, source, failures>>

-----------------------------------------------------------------------------
SweepStep ==
  \/ \E i \in Images : ClaimImage(i) \/ FinalizeImage(i)
  \/ OtherTick
  \/ Select
  \/ SweepEnds
  \/ Dispatch
  \/ SubmitVideo
  \/ SubmitRejected
  \/ RecordFailure

FollowupNext ==
  \/ \E i \in Images : Submission(i) \/ CancelQueued(i) \/ Organize(i)
  \/ SweepStep
  \/ SourceReady
  \/ DispatchFails
  \/ StopApi
  \/ RestartApi

\* The event loop runs the worker, the executor returns (ComfyExecutor), the
\* lifespan sets the adapter, and the operator starts the process again.
FollowupFairness ==
  /\ WF_followupVars(SweepStep)
  /\ WF_followupVars(SourceReady)
  /\ WF_followupVars(RestartApi)

FollowupSpec == FollowupInit /\ [][FollowupNext]_followupVars

FollowupFairSpec == FollowupSpec /\ FollowupFairness

-----------------------------------------------------------------------------
(* Properties.                                                             *)

\* Exactly one video Job for a submitted reservation, none for any other, and
\* no settled reservation ever changes, whatever fails between two commits.
Promise == INSTANCE Reservation WITH state <- standing

ImplementsReservation == Promise!Spec

\* How a reservation ended agrees with how its image Job ended, and a submitted
\* one knows its video Job.
FollowsImage ==
  \A i \in Images :
    /\ standing[i] = "skipped" => image[i] \in {"failed", "cancelled"}
    /\ standing[i] \in {"submitted", "failed"} => image[i] = "succeeded"
    /\ linked[i] <=> standing[i] = "submitted"
    /\ videos[i] > 0 => linked[i]

\* Every reservation of an image Job that has ended is settled, however many
\* there are and although one sweep takes only SweepLimit of them.
ReservationsSettle ==
  \A i \in Images : standing[i] = "pending" /\ image[i] \in Ended ~> standing[i] \in Decided
=============================================================================
