------------------------------- MODULE RunAll -------------------------------
(***************************************************************************)
(* "Run the rest" of the web client: runAll.ts, runAllSteps.ts, steps.ts   *)
(* and useRunAll.ts under apps/web-next/src/sceneProduce.                  *)
(*                                                                         *)
(* The page submits a Job, polls it, adopts its result and goes on to the  *)
(* next unit of the scene.  Meanwhile Jobs end on the server, another tab  *)
(* adopts or gives up results, replies are lost, and the user stops the    *)
(* run or closes the page and opens it again.                              *)
(***************************************************************************)
EXTENDS Naturals, Sequences, FiniteSets, SequencesExt

CONSTANTS
  Pages,            \* pages opened one after the other
  UnitsOf,          \* [step -> sequence of its units]: costumes, lines, slots
  Silent,           \* lines whose speaker has no voice: never submitted
  Contested,        \* bound: the units that another tab touches
  AdoptedAtFirst,   \* the units that may be adopted when it begins
  MaxPollFailures,  \* MAX_POLL_FAILURES
  MaxJobs,          \* bound: Jobs submitted
  MaxStarts,        \* bound: clicks on the button
  MaxTabActs        \* bound: changes made in another tab

\* STEPS, in the order they run; a unit of the steps but the first has a slot.
Steps == <<"character", "scene_image", "voice", "bgm", "video", "compose">>
StepIds == {"character", "scene_image", "voice", "bgm", "video", "compose"}
Units == UNION {Range(UnitsOf[step]) : step \in StepIds}

\* What runVideo and runCompose look for among the adoptions.
Needs(step) ==
  CASE step = "video" -> Range(UnitsOf["scene_image"])
    [] step = "compose" -> Range(UnitsOf["video"])
    [] OTHER -> {}

Loops == {"off", "starting", "choosing", "checking", "picking", "posting", "posted",
          "polling", "collecting", "adopting", "cancelling"}
Phases == {"idle", "running", "completed", "failed", "aborted"}
StepStates == {"pending", "running", "done", "skipped", "failed"}

\* What became of a Job from the page's point of view.
Fates == {"awaited", "ended", "lost", "given up", "left", "not cancelled", "cancelled"}

VARIABLES
  loop,         \* [Pages -> Loops]: where start() stands
  open,         \* the page that is mounted, or none: a set of at most one
  aborted,      \* pages whose AbortController has fired
  cancelOnAbort, \* pages whose user pressed stop during the current run
  phase,        \* [Pages -> Phases]
  shown,        \* [Pages -> [StepIds -> StepStates]]
  todo,         \* [Pages -> SUBSET StepIds]: the steps left, the current one with them
  unitsLeft,    \* [Pages -> set of the units left in the current step]
  made,         \* [Pages -> BOOLEAN]: the current step has submitted something
  current,      \* [Pages -> id of the Job being handled, 0 if none]
  pollFailures, \* [Pages -> Nat]: in a row
  jobs,         \* the server's Jobs: sequence of [unit, state, page]
  fate,         \* [ids of Jobs -> Fates]
  adopted,      \* SUBSET Units: the server's adoptions
  budget        \* [starts, acts]: what the user may still do

pageVars == <<loop, aborted, cancelOnAbort, phase, shown, todo, unitsLeft, made,
              current, pollFailures>>
serverVars == <<jobs, fate, adopted>>
runAllVars == <<pageVars, serverVars, open, budget>>

RunAllTypeOK ==
  /\ loop \in [Pages -> Loops]
  /\ open \in SUBSET Pages
  /\ phase \in [Pages -> Phases]
  /\ shown \in [Pages -> [StepIds -> StepStates]]
  /\ \A p \in Pages : current[p] \in 0 .. Len(jobs) /\ pollFailures[p] <= MaxPollFailures
  /\ adopted \in SUBSET Units
  /\ DOMAIN fate = DOMAIN jobs

RunAllInit ==
  /\ loop = [p \in Pages |-> "off"]
  /\ open = {}
  /\ aborted = {}
  /\ cancelOnAbort = {}
  /\ phase = [p \in Pages |-> "idle"]
  /\ shown = [p \in Pages |-> [s \in StepIds |-> "skipped"]]
  /\ todo = [p \in Pages |-> {}]
  /\ unitsLeft = [p \in Pages |-> {}]
  /\ made = [p \in Pages |-> FALSE]
  /\ current = [p \in Pages |-> 0]
  /\ pollFailures = [p \in Pages |-> 0]
  /\ jobs = <<>>
  /\ fate = <<>>
  /\ adopted \in AdoptedAtFirst
  /\ budget = [starts |-> MaxStarts, acts |-> MaxTabActs]

Enter(p, l) == loop' = [loop EXCEPT ![p] = l]
FirstOf(seq, left) ==
  seq[CHOOSE i \in DOMAIN seq : seq[i] \in left /\ \A j \in 1 .. (i - 1) : seq[j] \notin left]
Step(p) == FirstOf(Steps, todo[p])
Unit(p) == FirstOf(UnitsOf[Step(p)], unitsLeft[p])
StateOf(p) == jobs[current[p]].state
Alive(i) == jobs[i].state \in {"active", "cancelling"}
Resolve(p, f) == fate' = IF current[p] = 0 THEN fate ELSE [fate EXCEPT ![current[p]] = f]

\* hasAllReferenceImages and isStepAdopted; a scene without lines has no voice.
Wanted(step) == ~(Range(UnitsOf[step]) \subseteq adopted)

\* update: a page that is gone is not drawn any more.
Draw(p, ph, states) ==
  /\ phase' = IF p \in open THEN [phase EXCEPT ![p] = ph] ELSE phase
  /\ shown' = IF p \in open THEN [shown EXCEPT ![p] = states] ELSE shown

\* The step that was running is drawn as waiting after a stop, else as failed.
Interrupted(p) ==
  [s \in StepIds |-> IF shown[p][s] # "running" THEN shown[p][s]
                     ELSE IF p \in aborted THEN "pending" ELSE "failed"]

\* The variables of the loop are gone with it.
Forget(p) ==
  /\ todo' = [todo EXCEPT ![p] = {}]
  /\ unitsLeft' = [unitsLeft EXCEPT ![p] = {}]
  /\ made' = [made EXCEPT ![p] = FALSE]
  /\ current' = [current EXCEPT ![p] = 0]
  /\ pollFailures' = [pollFailures EXCEPT ![p] = 0]

\* The catch and finally clauses of start(): any error of an aborted run counts
\* as the abort.
Leave(p, f) ==
  /\ Enter(p, "off")
  /\ Draw(p, IF p \in aborted THEN "aborted" ELSE "failed", Interrupted(p))
  /\ Resolve(p, f)
  /\ Forget(p)
  /\ UNCHANGED <<aborted, cancelOnAbort>>

\* submitAndWait: an error while the Job is waited for cancels it if the user
\* has pressed stop.
GiveUpJob(p, f) ==
  IF p \in aborted /\ p \in cancelOnAbort
  THEN /\ Enter(p, "cancelling")
       /\ UNCHANGED <<aborted, cancelOnAbort, phase, shown, todo, unitsLeft, made, current,
                      pollFailures, fate>>
  ELSE Leave(p, f)

-----------------------------------------------------------------------------
(* The page.                                                               *)

OpenPage(p) ==
  /\ open = {}
  /\ phase[p] = "idle" /\ p \notin aborted
  /\ open' = {p}
  /\ UNCHANGED <<pageVars, serverVars, budget>>

\* Mutant: the button works while a run is under way.
AnyTime(p) == TRUE

\* controller.current is null.
NotRunning(p) == loop[p] = "off"

Start(p) ==
  /\ p \in open
  /\ NotRunning(p)
  /\ budget.starts > 0
  /\ budget' = [budget EXCEPT !.starts = @ - 1]
  /\ Enter(p, "starting")
  /\ aborted' = aborted \ {p}
  /\ cancelOnAbort' = cancelOnAbort \ {p}
  /\ current' = [current EXCEPT ![p] = 0]
  /\ UNCHANGED <<phase, shown, todo, unitsLeft, made, pollFailures, serverVars, open>>

\* Characters and adoptions are read; the steps to run are drawn as waiting.
LoadScene(p) ==
  /\ loop[p] = "starting"
  /\ \/ /\ Enter(p, "choosing")
        /\ todo' = [todo EXCEPT ![p] = {s \in StepIds : Wanted(s)}]
        /\ Draw(p, "running", [s \in StepIds |-> IF Wanted(s) THEN "pending" ELSE "skipped"])
        /\ UNCHANGED <<aborted, cancelOnAbort, unitsLeft, made, current, pollFailures, fate>>
     \/ Leave(p, "ended")
  /\ UNCHANGED <<jobs, adopted, open, budget>>

\* The loop of start().  After the last step a stop is not looked at any more.
NextStep(p) ==
  /\ loop[p] = "choosing"
  /\ IF todo[p] = {}
     THEN /\ Enter(p, "off")
          /\ Draw(p, "completed", shown[p])
          /\ Forget(p)
          /\ UNCHANGED <<aborted, cancelOnAbort, fate>>
     ELSE IF p \in aborted THEN Leave(p, "ended")
     ELSE /\ Enter(p, "checking")
          /\ Draw(p, phase[p], [shown[p] EXCEPT ![Step(p)] = "running"])
          /\ UNCHANGED <<aborted, cancelOnAbort, todo, unitsLeft, made, current,
                         pollFailures, fate>>
  /\ UNCHANGED <<jobs, adopted, open, budget>>

\* The step is over: its result is drawn and the next one chosen.
StepEnds(p, result) ==
  /\ Enter(p, "choosing")
  /\ Draw(p, phase[p], [shown[p] EXCEPT ![Step(p)] = result])
  /\ todo' = [todo EXCEPT ![p] = @ \ {Step(p)}]
  /\ current' = [current EXCEPT ![p] = 0]
  /\ UNCHANGED <<aborted, cancelOnAbort, unitsLeft, made, pollFailures, fate>>

\* executeStep reads everything again: a step that became superfluous is
\* skipped; what a step needs may be missing; a read may fail.
CheckStep(p) ==
  /\ loop[p] = "checking"
  /\ \/ ~Wanted(Step(p)) /\ StepEnds(p, "skipped")
     \/ /\ Wanted(Step(p))
        /\ Needs(Step(p)) \subseteq adopted
        /\ Enter(p, "picking")
        /\ unitsLeft' = [unitsLeft EXCEPT ![p] =
             {u \in Range(UnitsOf[Step(p)]) : Step(p) = "voice" \/ u \notin adopted}]
        /\ made' = [made EXCEPT ![p] = FALSE]
        /\ UNCHANGED <<aborted, cancelOnAbort, phase, shown, todo, current, pollFailures,
                       fate>>
     \/ Leave(p, "ended")
  /\ UNCHANGED <<jobs, adopted, open, budget>>

\* The next unit.  A line is looked at once more, and skipped if it has been
\* adopted or its speaker has no voice; an aborted run submits nothing.
PickUnit(p) ==
  /\ loop[p] = "picking"
  /\ IF unitsLeft[p] = {} THEN StepEnds(p, IF made[p] THEN "done" ELSE "skipped")
     ELSE IF Unit(p) \in Silent \cup (IF Step(p) = "voice" THEN adopted ELSE {})
     THEN /\ unitsLeft' = [unitsLeft EXCEPT ![p] = @ \ {Unit(p)}]
          /\ UNCHANGED <<loop, aborted, cancelOnAbort, phase, shown, todo, made, current,
                         pollFailures, fate>>
     ELSE IF p \in aborted THEN Leave(p, "ended")
     ELSE /\ Enter(p, "posting")
          /\ UNCHANGED <<aborted, cancelOnAbort, phase, shown, todo, unitsLeft, made, current,
                         pollFailures, fate>>
  /\ UNCHANGED <<jobs, adopted, open, budget>>

\* POST /generation-jobs reaches the server.
Post(p) ==
  /\ loop[p] = "posting"
  /\ Len(jobs) < MaxJobs
  /\ Enter(p, "posted")
  /\ jobs' = Append(jobs, [unit |-> Unit(p), state |-> "active", page |-> p])
  /\ fate' = Append(fate, "awaited")
  /\ current' = [current EXCEPT ![p] = Len(jobs) + 1]
  /\ UNCHANGED <<aborted, cancelOnAbort, phase, shown, todo, unitsLeft, made, pollFailures,
                 adopted, open, budget>>

PostRefused(p) ==
  /\ loop[p] = "posting"
  /\ Leave(p, "ended")
  /\ UNCHANGED <<jobs, adopted, open, budget>>

Reply(p) ==
  /\ loop[p] = "posted"
  /\ Enter(p, "polling")
  /\ pollFailures' = [pollFailures EXCEPT ![p] = 0]
  /\ UNCHANGED <<aborted, cancelOnAbort, phase, shown, todo, unitsLeft, made, current,
                 serverVars, open, budget>>

\* Without the reply there is no id to wait for or to cancel.
ReplyLost(p) ==
  /\ loop[p] = "posted"
  /\ Leave(p, "lost")
  /\ UNCHANGED <<jobs, adopted, open, budget>>

\* waitForJob: an abort ends the wait at once, the end of the Job otherwise.
Poll(p) ==
  /\ loop[p] = "polling"
  /\ IF p \in aborted THEN GiveUpJob(p, "left")
     ELSE \/ /\ StateOf(p) = "succeeded"
             /\ Enter(p, "collecting")
             /\ UNCHANGED <<aborted, cancelOnAbort, phase, shown, todo, unitsLeft, made,
                            current, pollFailures, fate>>
          \/ StateOf(p) = "failed" /\ Leave(p, "ended")
          \/ /\ Alive(current[p])
             /\ pollFailures' = [pollFailures EXCEPT ![p] = 0]
             /\ UNCHANGED <<loop, aborted, cancelOnAbort, phase, shown, todo, unitsLeft,
                            made, current, fate>>
  /\ UNCHANGED <<jobs, adopted, open, budget>>

PollFails(p) ==
  /\ loop[p] = "polling"
  /\ p \notin aborted
  /\ IF pollFailures[p] = MaxPollFailures THEN Leave(p, "given up")
     ELSE /\ pollFailures' = [pollFailures EXCEPT ![p] = @ + 1]
          /\ UNCHANGED <<loop, aborted, cancelOnAbort, phase, shown, todo, unitsLeft, made,
                         current, fate>>
  /\ UNCHANGED <<jobs, adopted, open, budget>>

\* pickArtifact of the Job's outputs: there may be none left.
Collect(p) ==
  /\ loop[p] = "collecting"
  /\ \/ /\ Enter(p, "adopting")
        /\ UNCHANGED <<aborted, cancelOnAbort, phase, shown, todo, unitsLeft, made, current,
                       pollFailures, fate>>
     \/ GiveUpJob(p, "ended")
  /\ UNCHANGED <<jobs, adopted, open, budget>>

\* putAdoption or addCostumeReference: last writer wins.
Adopt(p) ==
  /\ loop[p] = "adopting"
  /\ \/ /\ adopted' = adopted \cup {Unit(p)}
        /\ Enter(p, "picking")
        /\ unitsLeft' = [unitsLeft EXCEPT ![p] = @ \ {Unit(p)}]
        /\ made' = [made EXCEPT ![p] = TRUE]
        /\ current' = [current EXCEPT ![p] = 0]
        /\ Resolve(p, "ended")
        /\ UNCHANGED <<aborted, cancelOnAbort, phase, shown, todo, pollFailures>>
     \/ adopted' \in {adopted, adopted \cup {Unit(p)}} /\ Leave(p, "ended")
  /\ UNCHANGED <<jobs, open, budget>>

\* cancelWaitingJob: 409 means there is nothing left to cancel.
CancelJob(p) ==
  /\ loop[p] = "cancelling"
  /\ \/ /\ jobs' = IF StateOf(p) = "active"
                   THEN [jobs EXCEPT ![current[p]].state = "cancelling"] ELSE jobs
        /\ Leave(p, "cancelled")
     \/ UNCHANGED jobs /\ Leave(p, "not cancelled")
  /\ UNCHANGED <<adopted, open, budget>>

-----------------------------------------------------------------------------
(* The user and the server.                                                *)

\* stop(): the run is aborted and the Job it waits for is cancelled.
Stop(p) ==
  /\ p \in open
  /\ ~NotRunning(p)
  /\ aborted' = aborted \cup {p}
  /\ cancelOnAbort' = cancelOnAbort \cup {p}
  /\ UNCHANGED <<loop, phase, shown, todo, unitsLeft, made, current, pollFailures,
                 serverVars, open, budget>>

\* The page is left: the run is aborted, its Job is not cancelled.
ClosePage(p) ==
  /\ p \in open
  /\ open' = {}
  /\ aborted' = IF NotRunning(p) THEN aborted ELSE aborted \cup {p}
  /\ UNCHANGED <<loop, cancelOnAbort, phase, shown, todo, unitsLeft, made, current,
                 pollFailures, serverVars, budget>>

\* To the page a Job that was cancelled has failed.
JobEnds(i) ==
  /\ Alive(i)
  /\ \E s \in {"succeeded", "failed"} : jobs' = [jobs EXCEPT ![i].state = s]
  /\ UNCHANGED <<pageVars, fate, adopted, open, budget>>

OtherTab ==
  /\ budget.acts > 0
  /\ budget' = [budget EXCEPT !.acts = @ - 1]
  /\ \E u \in Contested : adopted' = IF u \in adopted THEN adopted \ {u} ELSE adopted \cup {u}
  /\ UNCHANGED <<pageVars, jobs, fate, open>>

RunAllNext ==
  \/ \E p \in Pages :
       \/ OpenPage(p)
       \/ Start(p)
       \/ LoadScene(p)
       \/ NextStep(p)
       \/ CheckStep(p)
       \/ PickUnit(p)
       \/ Post(p)
       \/ PostRefused(p)
       \/ Reply(p)
       \/ ReplyLost(p)
       \/ Poll(p)
       \/ PollFails(p)
       \/ Collect(p)
       \/ Adopt(p)
       \/ CancelJob(p)
       \/ Stop(p)
       \/ ClosePage(p)
  \/ \E i \in DOMAIN jobs : JobEnds(i)
  \/ OtherTab

RunAllSpec == RunAllInit /\ [][RunAllNext]_runAllVars

-----------------------------------------------------------------------------
(* Properties.                                                             *)

\* A Job that runs is being waited for by the loop that submitted it, or the
\* page knows, or has said, why not: so a second one for the same unit is never
\* submitted behind the back of a first that is still waited for.
NoneForgotten ==
  \A i \in DOMAIN jobs : Alive(i) /\ fate[i] = "awaited" =>
    /\ current[jobs[i].page] = i
    /\ loop[jobs[i].page] \in {"posted", "polling", "cancelling"}

\* The user's stop ends with no Job of the run still at work, but for those
\* whose id never came, whose state could not be read or whose cancellation
\* failed; the page says so of the last two.
StopLeavesNothing ==
  \A i \in DOMAIN jobs :
    LET p == jobs[i].page IN
      p \in open /\ loop[p] = "off" /\ jobs[i].state = "active"
        => fate[i] \in {"lost", "given up", "not cancelled"}

\* What the page shows when the loop has ended: nothing runs; a failure is of
\* one step at most; a run that completed has left no step out.
RunShown ==
  \A p \in open : loop[p] = "off" =>
    /\ \A s \in StepIds : shown[p][s] # "running"
    /\ phase[p] = "completed" => Range([s \in StepIds |-> shown[p][s]]) \subseteq {"done", "skipped"}
    /\ Cardinality({s \in StepIds : shown[p][s] = "failed"}) <= 1

RunAllSafe == NoneForgotten /\ StopLeavesNothing /\ RunShown
=============================================================================
