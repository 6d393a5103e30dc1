------------------------------- MODULE Wizard -------------------------------
(***************************************************************************)
(* The set-up wizard (setup/satyameba_setup.py): the Tk thread, which      *)
(* starts one job when a button is pressed and drains a queue every 100    *)
(* ms, the thread that runs the job, and what the job's commands do to     *)
(* the host.  The log and the progress bar are left out; of the status     *)
(* line only the two sentences about dependencies are kept.                *)
(***************************************************************************)
EXTENDS Naturals, Sequences, FiniteSets, Functions

CONSTANTS
    MayMiss,     \* the dependencies that may be absent at the start
    MaxFaults    \* bound: commands that fail or raise for outside reasons

\* A plausible slip: docker before what its steps need.
OrderAlphabetical == <<"ca", "compose", "curl", "docker", "git", "gnupg",
                       "nvsmi", "nvtoolkit", "openssl">>

\* build_dependencies, in the order of the list.
Order == <<"curl", "git", "openssl", "ca", "gnupg",
           "docker", "compose", "nvsmi", "nvtoolkit">>
Deps == Range(Order)
Required == Deps \ {"nvsmi", "nvtoolkit"}

Statuses == {"unknown", "ok", "missing", "error"}

(* What the install steps of a dependency need on the host, and what they  *)
(* bring.  The NVIDIA driver takes a reboot, which ends the wizard.  That  *)
(* apt knows where a package is, is not among the needs: only some of the  *)
(* steps bring its index up to date, and one that fails on an index that   *)
(* is missing or old is a command that fails for an outside reason.        *)
Needs(d) == CASE d = "docker"    -> {"curl", "gnupg", "ca"}
              [] d = "nvtoolkit" -> {"curl", "gnupg", "ca", "docker"}
              [] OTHER           -> {}
Brings(d) == CASE d = "docker" -> {"docker", "compose"}
               [] d = "nvsmi"  -> {}
               [] OTHER        -> {d}

\* The jobs that run other scripts: they touch no dependency of the table.
Scripts == {"gpu", "group", "scan", "public", "bootstrap"}
Jobs == {"check", "install"} \cup Scripts

VARIABLES
    present,   \* the dependencies the host has
    repo,      \* is Docker's apt repository configured?
    status,    \* Dependency.status
    row,       \* the label of each row of the table
    line,      \* the status line
    enabled,   \* the seven buttons
    queue,     \* self.q
    job,       \* the target the thread runs, "none" without a thread
    todo,      \* where in Order are the dependencies it still has to deal with
    asked,     \* is the check of Current announced and under way?
    role,      \* the radio button "Master" / "Worker"
    faults

vars == <<present, repo, status, row, line, enabled, queue, job, todo, asked, role,
          faults>>
host == <<present, repo>>
ui == <<row, line, enabled, role>>

ASSUME WizardAssumption == MayMiss \subseteq Deps /\ MaxFaults \in Nat

\* A host without docker has no docker compose either.
Init == /\ \E absent \in SUBSET MayMiss :
             /\ "docker" \in absent => "compose" \in absent
             /\ present = Deps \ absent
        /\ repo \in BOOLEAN
        /\ status = [d \in Deps |-> "unknown"] /\ row = status
        /\ line = "idle" /\ enabled = TRUE
        /\ queue = <<>> /\ job = "none" /\ todo = {} /\ asked = FALSE
        /\ role = "master" /\ faults = 0

Status(d, s) == [kind |-> "status", dep |-> d, value |-> s]
Line(s) == [kind |-> "line", value |-> s]
Enable == [kind |-> "enable"]

------------------------------------------------------------------------------
(* The Tk thread.                                                          *)

\* _do_installs looks at the statuses when the thread starts.
Targets == {i \in DOMAIN Order : status[Order[i]] = "missing"}

(* _thread: a press disables the buttons, then starts the thread.  A       *)
(* dialog answered with "cancel" comes to nothing and starts none; without *)
(* anything missing the install has nothing to do but to say so.           *)
Press == /\ enabled
         /\ \E j \in Jobs : /\ job' = IF j = "install" /\ Targets = {}
                                        THEN "nothing" ELSE j
                            /\ todo' = CASE j = "check"   -> DOMAIN Order
                                         [] j = "install" -> Targets
                                         [] OTHER         -> {}
                            /\ asked' = FALSE
         /\ enabled' = FALSE
         /\ UNCHANGED <<host, status, row, line, queue, role, faults>>

\* The radio buttons are never disabled, whatever job is under way.
Toggle == /\ role' \in {"master", "worker"} \ {role}
          /\ UNCHANGED <<host, status, row, line, enabled, queue, job, todo, asked, faults>>

\* One message of _drain_queue.
Drain == /\ queue # <<>>
         /\ LET m == Head(queue) IN
              /\ row' = IF m.kind = "status"
                          THEN [row EXCEPT ![m.dep] = m.value] ELSE row
              /\ line' = IF m.kind = "line" THEN m.value ELSE line
              /\ enabled' = (enabled \/ m.kind = "enable")
         /\ queue' = Tail(queue)
         /\ UNCHANGED <<host, status, job, todo, asked, role, faults>>

------------------------------------------------------------------------------
(* The thread of a job.                                                    *)

Say(messages) == queue' = queue \o messages

\* The loops take the dependencies in the order of the list.
First == CHOOSE i \in todo : \A j \in todo : i <= j
Current == Order[First]

\* The label "..." of the dependency whose check is about to run.
StartCheck == /\ job = "check" /\ todo # {} /\ ~asked
              /\ asked' = TRUE
              /\ Say(<<Status(Current, "checking")>>)
              /\ UNCHANGED <<host, ui, status, job, todo, faults>>

\* A plausible slip: the table is told of the outcome only when it is a good one.
SettleInSilence(d, s) == /\ status' = [status EXCEPT ![d] = s]
                         /\ Say(IF s = "error" THEN <<>> ELSE <<Status(d, s)>>)
                         /\ todo' = todo \ {First} /\ asked' = FALSE
                         /\ UNCHANGED <<ui, job>>

\* A plausible slip: what is missing still is tried again, for as long as it is.
SettleUnlessMissing(d, s) == /\ status' = [status EXCEPT ![d] = s]
                             /\ Say(<<Status(d, s)>>)
                             /\ todo' = IF s = "missing" THEN todo ELSE todo \ {First}
                             /\ asked' = FALSE
                             /\ UNCHANGED <<ui, job>>

\* The dependency is dealt with: its status is s from now on.
Settle(d, s) == /\ status' = [status EXCEPT ![d] = s]
                /\ Say(<<Status(d, s)>>)
                /\ todo' = todo \ {First} /\ asked' = FALSE
                /\ UNCHANGED <<ui, job>>

EndCheck == /\ job = "check" /\ asked
            /\ Settle(Current, IF Current \in present THEN "ok" ELSE "missing")
            /\ UNCHANGED <<host, faults>>

(* Docker's steps configure its repository, which docker compose needs     *)
(* when it is installed by itself.                                         *)
StepsWork(d) == Needs(d) \subseteq present /\ (d = "compose" => repo)

\* A plausible slip: the steps decide, and the check after them is forgotten.
OutcomeOfSteps(d, have, failed) == IF failed THEN "error" ELSE "ok"

\* The status after the steps: the check decides, not the steps.
Outcome(d, have, failed) == IF d \in have THEN "ok"
                            ELSE IF failed THEN "error" ELSE "missing"

(* _do_installs, one dependency: the steps in order up to the first that   *)
(* fails, then the check.  A step may also fail for reasons of its own     *)
(* (the network), before or after the others have done their work.         *)
Install == /\ job = "install" /\ todo # {}
           /\ LET d == Current
                  all == present \cup Brings(d)
              IN  \/ /\ StepsWork(d)
                     /\ present' = all /\ repo' = (repo \/ d = "docker")
                     /\ Settle(d, Outcome(d, all, FALSE)) /\ UNCHANGED faults
                  \/ /\ ~StepsWork(d)
                     /\ Settle(d, Outcome(d, present, TRUE)) /\ UNCHANGED <<host, faults>>
                  \/ /\ StepsWork(d) /\ faults < MaxFaults /\ faults' = faults + 1
                     /\ present' \in {present, all}
                     /\ repo' \in {repo, repo \/ d = "docker"}
                     /\ Settle(d, Outcome(d, present', TRUE))

(* The last line of a job, and the "enable" of _wrap.                      *)
Lacking == {d \in Required : status[d] # "ok"}
LastLine == CASE job = "check"   -> IF Lacking = {} THEN "all present" ELSE "some missing"
              [] job = "install" -> "install pass complete"
              [] OTHER           -> "other"

End(messages) == /\ job' = "none" /\ todo' = {} /\ asked' = FALSE
                 /\ Say(messages)
                 /\ UNCHANGED <<host, ui, status>>

\* Bootstrapping a worker with a field left empty ends in a warning, no line.
Finish == /\ job # "none" /\ todo = {}
          /\ \/ End(<<Line(LastLine), Enable>>)
             \/ job = "bootstrap" /\ role = "worker" /\ End(<<Enable>>)
          /\ UNCHANGED faults

\* A plausible slip: "enable" after the job instead of in a finally.
RaiseAndDie == /\ job # "none" /\ faults < MaxFaults
               /\ faults' = faults + 1
               /\ End(<<>>)

(* A command raises (FileNotFoundError apart, which is caught): the rest   *)
(* of the job is skipped, the buttons still come back.                     *)
Raise == /\ job # "none" /\ faults < MaxFaults
         /\ faults' = faults + 1
         /\ End(<<Enable>>)

Job == StartCheck \/ EndCheck \/ Install \/ Finish \/ Raise
Next == Press \/ Toggle \/ Drain \/ Job

(* The Tk loop runs _drain_queue every 100 ms, and commands end.           *)
Spec == Init /\ [][Next]_vars /\ WF_vars(Drain) /\ WF_vars(Job)

------------------------------------------------------------------------------
(* Properties.                                                             *)

(* A second press never finds a job under way or a message undelivered:    *)
(* "enable" is the last message of a job.  The table then shows the status *)
(* the next job will act on, but for a row whose check was cut short.      *)
PressFindsTheTableSettled ==
    enabled => /\ job = "none" /\ queue = <<>>
               /\ \A d \in Deps : \/ row[d] = status[d]
                                   \/ (row[d] = "checking" /\ faults > 0)

(* What the wizard says is present is on the host: the rows and the line   *)
(* "All required dependencies present.", though the table is drawn later   *)
(* than the checks ran and other installs came between.                    *)
PresentIsOnTheHost ==
    /\ \A d \in Deps : row[d] = "ok" => d \in present
    /\ line = "all present" => Required \subseteq present

(* One pass of "Install / fix missing" is enough: the list is in an order  *)
(* in which each install finds what it needs.  Left are the driver, which  *)
(* needs a reboot, and docker compose on a host whose docker came from     *)
(* elsewhere, whose repository the wizard then never configures.           *)
OnePassInstalls ==
    (enabled /\ line = "install pass complete" /\ faults = 0) =>
        \A d \in Deps \ {"nvsmi"} : status[d] = "ok" \/ (d = "compose" /\ ~repo)

(* Disabled buttons are owed: the thread has a step left to take, whichever *)
(* job it runs and wherever a command of it raised, or the "enable" of     *)
(* _wrap is the last message on its way.                                   *)
ButtonsAreOwed ==
    ~enabled => \/ job # "none" /\ (todo # {} => job \in {"check", "install"})
                \/ queue # <<>> /\ queue[Len(queue)] = Enable

(* Nor can they be owed forever: until they come back every step of the    *)
(* thread leaves it less to do, and nothing else gives it more or queues a *)
(* message.  Left is the number of steps it has left.                      *)
Left == IF job = "none" THEN 0
        ELSE 1 + 2 * Cardinality(todo) - (IF asked THEN 1 ELSE 0)

JobsWindDown ==
    [][~enabled => \/ Left' < Left
                   \/ Left' = Left /\ (queue' = queue \/ queue' = Tail(queue))]_vars

\* The buttons always come back, whatever the commands of the job did.
ButtonsComeBack == ~enabled ~> enabled

=============================================================================
