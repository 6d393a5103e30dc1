---------------------------- MODULE WizardProofs ----------------------------
(***************************************************************************)
(* Proofs about the set-up wizard: a press finds the table settled, what   *)
(* is shown as present is on the host, one pass of installs is enough.     *)
(*                                                                         *)
(* The messages under way are what makes these hard: a row, and the status *)
(* line, say something about the past until the queue is empty.  Shows is  *)
(* what the label of a topic will be then, and the invariants speak of it. *)
(***************************************************************************)
EXTENDS Wizard, SequenceTheorems, FiniteSetTheorems, TLAPS

Labels == Statuses \cup {"checking"}
Lines == {"idle", "all present", "some missing", "install pass complete", "other"}
Messages == [kind : {"status"}, dep : Deps, value : Labels]
              \cup [kind : {"line"}, value : Lines]
              \cup [kind : {"enable"}]

\* What a message is about: a row, the status line, the buttons.
Topic(m) == IF m.kind = "status" THEN m.dep ELSE m.kind

\* The label of t, now w, is v once the messages of q are delivered.
Shows(q, w, t, v) ==
    \/ w = v /\ \A i \in 1..Len(q) : Topic(q[i]) # t
    \/ \E i \in 1..Len(q) : /\ Topic(q[i]) = t /\ q[i].value = v
                            /\ \A j \in 1..Len(q) : j > i => Topic(q[j]) # t

TypeOK == /\ present \subseteq Deps /\ repo \in BOOLEAN
          /\ status \in [Deps -> Statuses] /\ row \in [Deps -> Labels]
          /\ line \in Lines /\ enabled \in BOOLEAN /\ queue \in Seq(Messages)
          /\ job \in Jobs \cup {"none", "nothing"}
          /\ todo \subseteq DOMAIN Order /\ asked \in BOOLEAN
          /\ role \in {"master", "worker"} /\ faults \in Nat

\* "enable" is the last message of a job, and nothing is queued behind it.
EnableIsLast ==
    /\ job # "none" => ~enabled
    /\ enabled => queue = <<>>
    /\ \A i \in 1..Len(queue) :
         queue[i].kind = "enable" => job = "none" /\ i = Len(queue)

AskedInCheck == asked => job = "check" /\ todo # {}

\* The label v of d is its status, or a check that is under way or was cut short.
Agrees(v, d) == \/ v = status[d]
                \/ v = "checking" /\ (faults > 0 \/ (asked /\ d = Current))

RowsWillAgree ==
    \A d \in Deps : \E v \in Labels : Shows(queue, row[d], d, v) /\ Agrees(v, d)

\* What m says is present is among the dependencies there are.
TrueOf(there, m) ==
    /\ m.kind = "status" /\ m.value = "ok" => m.dep \in there
    /\ m.kind = "line" /\ m.value = "all present" => Required \subseteq there

\* So it is with the statuses, the rows, the line and every message under way.
PresentInv == /\ \A d \in Deps : status[d] = "ok" \/ row[d] = "ok" => d \in present
              /\ line = "all present" => Required \subseteq present
              /\ \A i \in 1..Len(queue) : TrueOf(present, queue[i])

Known(d) == status[d] # "unknown"
DealtWith(d) == d = "nvsmi" \/ status[d] \in {"ok", "error"}

\* While no command failed: a check is complete, and a pass leaves nothing behind it.
NothingSkipped ==
    /\ \A d \in Deps : status[d] = "error" => d = "compose" /\ ~repo /\ "docker" \in present
    /\ job = "check" => \A i \in DOMAIN Order \ todo : Known(Order[i])
    /\ job # "check" => (\A d \in Deps : Known(d)) \/ (\A d \in Deps : ~Known(d))
    /\ job = "install" => \A i \in DOMAIN Order \ todo : DealtWith(Order[i])

PassInv ==
    /\ status["docker"] = "missing" => "docker" \notin present
    /\ job = "install" => \A i \in todo : status[Order[i]] = "missing"
    /\ faults = 0 => NothingSkipped

\* Where the line is, or will be, that of a complete pass, the pass was complete.
LineInv ==
    \E v \in Lines :
      /\ Shows(queue, line, "line", v)
      /\ (v = "install pass complete" /\ faults = 0 /\ job \notin {"check", "install"})
           => \A d \in Deps : DealtWith(d)

------------------------------------------------------------------------------
(* The list of dependencies.                                               *)

LEMMA OrderIs ==
    /\ DOMAIN Order = 1..9
    /\ Order[1] = "curl" /\ Order[2] = "git" /\ Order[3] = "openssl"
    /\ Order[4] = "ca" /\ Order[5] = "gnupg" /\ Order[6] = "docker"
    /\ Order[7] = "compose" /\ Order[8] = "nvsmi" /\ Order[9] = "nvtoolkit"
  BY DEF Order

LEMMA DepsAre ==
    Deps = {"curl", "git", "openssl", "ca", "gnupg",
            "docker", "compose", "nvsmi", "nvtoolkit"}
  BY OrderIs DEF Deps, Range

\* Every dependency has a place in the list, and only one.
LEMMA PlacesInOrder ==
    /\ \A i \in DOMAIN Order : Order[i] \in Deps
    /\ \A d \in Deps : \E i \in DOMAIN Order : Order[i] = d
    /\ \A i, j \in DOMAIN Order : Order[i] = Order[j] => i = j
<1>1. /\ \A i \in DOMAIN Order : Order[i] \in Deps
      /\ \A d \in Deps : \E i \in DOMAIN Order : Order[i] = d
  BY DEF Deps, Range
<1>2. ASSUME NEW i \in 1..9, NEW j \in 1..9, Order[i] = Order[j] PROVE i = j
  BY <1>2, OrderIs
<1> QED BY <1>1, <1>2, OrderIs

LEMMA FirstIsFirst ==
    ASSUME todo \subseteq DOMAIN Order, todo # {}
    PROVE  First \in todo /\ \A j \in todo : First <= j
<1>1. todo \subseteq 1..9
  BY OrderIs
<1>2. \E i \in todo : \A j \in todo : i <= j
  BY <1>1
<1> QED BY <1>2 DEF First

------------------------------------------------------------------------------
(* What the queue will show.                                               *)

LEMMA ShowsDelivered ==
    ASSUME NEW w, NEW t, NEW v, Shows(<<>>, w, t, v)
    PROVE  w = v
  BY DEF Shows

\* One message is delivered.
LEMMA ShowsDrain ==
    ASSUME NEW S, NEW q \in Seq(S), q # <<>>, NEW w, NEW t, NEW v, Shows(q, w, t, v)
    PROVE  Shows(Tail(q), IF Topic(Head(q)) = t THEN Head(q).value ELSE w, t, v)
<1> DEFINE T == Tail(q)
<1>1. /\ Len(q) \in Nat \ {0} /\ T \in Seq(S) /\ Len(T) = Len(q) - 1
      /\ \A i \in 1..Len(T) : T[i] = q[i + 1]
      /\ Head(q) = q[1]
  OBVIOUS
<1> HIDE DEF T
<1>2. CASE w = v /\ \A i \in 1..Len(q) : Topic(q[i]) # t
  BY <1>1, <1>2 DEF Shows
<1>3. ASSUME NEW i \in 1..Len(q), Topic(q[i]) = t, q[i].value = v,
             \A j \in 1..Len(q) : j > i => Topic(q[j]) # t
      PROVE  Shows(T, IF Topic(Head(q)) = t THEN Head(q).value ELSE w, t, v)
  <2>1. CASE i = 1
    <3>1. \A j \in 1..Len(T) : Topic(T[j]) # t
      BY <1>1, <1>3, <2>1
    <3> QED BY <1>1, <1>3, <2>1, <3>1 DEF Shows
  <2>2. CASE i > 1
    <3>1. /\ i - 1 \in 1..Len(T) /\ T[i - 1] = q[i]
          /\ \A j \in 1..Len(T) : j > i - 1 => Topic(T[j]) # t
      BY <1>1, <1>3, <2>2, SMTT(30)
    <3> QED BY <1>3, <3>1 DEF Shows
  <2> QED BY <2>1, <2>2
<1> QED BY <1>2, <1>3 DEF Shows, T

\* One message is added.
LEMMA ShowsSaid ==
    ASSUME NEW S, NEW q \in Seq(S), NEW m \in S, NEW w, NEW t, NEW v, Shows(q, w, t, v)
    PROVE  Shows(q \o <<m>>, w, t, IF Topic(m) = t THEN m.value ELSE v)
<1> DEFINE Q == q \o <<m>>
<1>1. /\ Len(q) \in Nat /\ Q \in Seq(S) /\ Len(Q) = Len(q) + 1
      /\ \A i \in 1..Len(q) : Q[i] = q[i]
      /\ Q[Len(q) + 1] = m
  OBVIOUS
<1> HIDE DEF Q
<1>2. CASE Topic(m) = t
  BY <1>1, <1>2, SMTT(30) DEF Shows
<1>3. CASE Topic(m) # t
  <2>1. CASE w = v /\ \A i \in 1..Len(q) : Topic(q[i]) # t
    BY <1>1, <1>3, <2>1 DEF Shows
  <2>2. ASSUME NEW i \in 1..Len(q), Topic(q[i]) = t, q[i].value = v,
               \A j \in 1..Len(q) : j > i => Topic(q[j]) # t
        PROVE  Shows(Q, w, t, v)
    <3>1. i \in 1..Len(Q) /\ Q[i] = q[i]
      BY <1>1
    <3>2. \A j \in 1..Len(Q) : j > i => Topic(Q[j]) # t
      BY <1>1, <1>3, <2>2
    <3> QED BY <2>2, <3>1, <3>2 DEF Shows
  <2> QED BY <1>3, <2>1, <2>2, SMTT(30) DEF Shows
<1> QED BY <1>2, <1>3 DEF Q

------------------------------------------------------------------------------
(* Messages and the shape of the state.                                    *)

LEMMA OneMoreMessage ==
    ASSUME NEW S, NEW q \in Seq(S), NEW m \in S
    PROVE  /\ q \o <<m>> \in Seq(S) /\ Len(q \o <<m>>) = Len(q) + 1
           /\ \A i \in 1..Len(q) : (q \o <<m>>)[i] = q[i]
           /\ (q \o <<m>>)[Len(q) + 1] = m
  OBVIOUS

LEMMA TwoMoreMessages ==
    ASSUME NEW S, NEW q \in Seq(S), NEW m \in S, NEW n \in S
    PROVE  q \o <<m, n>> = (q \o <<m>>) \o <<n>>
<1> DEFINE e == q \o <<m, n>>
           a == q \o <<m>>
           b == a \o <<n>>
<1>1. /\ Len(q) \in Nat /\ e \in Seq(S) /\ Len(e) = Len(q) + 2
      /\ \A i \in 1..Len(q) : e[i] = q[i]
      /\ e[Len(q) + 1] = m /\ e[Len(q) + 2] = n
  OBVIOUS
<1>2. /\ a \in Seq(S) /\ Len(a) = Len(q) + 1 /\ a[Len(q) + 1] = m
      /\ \A i \in 1..Len(q) : a[i] = q[i]
  BY OneMoreMessage
<1> HIDE DEF a
<1>3. /\ b \in Seq(S) /\ Len(b) = Len(a) + 1 /\ b[Len(a) + 1] = n
      /\ \A i \in 1..Len(a) : b[i] = a[i]
  BY <1>2, OneMoreMessage
<1> HIDE DEF b, e
<1>4. Len(b) = Len(e)
  BY <1>1, <1>2, <1>3
<1>5. ASSUME NEW i \in 1..Len(b) PROVE b[i] = e[i]
  <2>1. CASE i \in 1..Len(q)
    BY <1>1, <1>2, <1>3, <2>1
  <2>2. CASE i = Len(q) + 1
    BY <1>1, <1>2, <1>3, <2>2
  <2>3. CASE i = Len(q) + 2
    BY <1>1, <1>2, <1>3, <2>3
  <2> QED BY <1>1, <1>2, <1>3, <2>1, <2>2, <2>3
<1>6. b = e
  BY <1>1, <1>3, <1>4, <1>5, SeqEqual
<1> QED BY <1>6 DEF a, b, e

LEMMA OneMessageLess ==
    ASSUME NEW S, NEW q \in Seq(S), q # <<>>
    PROVE  /\ Tail(q) \in Seq(S) /\ Len(Tail(q)) = Len(q) - 1 /\ Len(q) \in Nat \ {0}
           /\ \A i \in 1..Len(Tail(q)) : Tail(q)[i] = q[i + 1]
           /\ Head(q) = q[1] /\ q[1] \in S
  OBVIOUS

LEMMA MessagesAre ==
    /\ \A d \in Deps, s \in Labels : Status(d, s) \in Messages
    /\ \A s \in Lines : Line(s) \in Messages
    /\ Enable \in Messages
  BY DEF Messages, Status, Line, Enable

LEMMA TopicsAre ==
    /\ \A d, s : Topic(Status(d, s)) = d /\ Status(d, s).value = s
    /\ \A s : Topic(Line(s)) = "line" /\ Line(s).value = s
    /\ Topic(Enable) = "enable"
    /\ "line" \notin Deps /\ "enable" \notin Deps
  BY DepsAre DEF Topic, Status, Line, Enable

LEMMA LastLineIsALine == LastLine \in Lines
  BY DEF LastLine, Lines

LEMMA OutcomeIsAStatus ==
    ASSUME NEW d, NEW have, NEW failed
    PROVE  Outcome(d, have, failed) \in Statuses
  BY DEF Outcome, Statuses

\* Dealing with a dependency keeps the shape.
LEMMA SettleType ==
    ASSUME TypeOK, NEW d \in Deps, NEW s \in Statuses, Settle(d, s)
    PROVE  /\ status' \in [Deps -> Statuses] /\ queue' \in Seq(Messages)
           /\ todo' \subseteq DOMAIN Order /\ asked' \in BOOLEAN
<1>1. Status(d, s) \in Messages
  BY MessagesAre DEF Labels
<1>2. queue' = queue \o <<Status(d, s)>>
  BY DEF Settle, Say
<1> QED BY <1>1, <1>2, OneMoreMessage DEF Settle, TypeOK

LEMMA EndType ==
    ASSUME TypeOK, NEW messages, End(messages),
           messages = <<Line(LastLine), Enable>> \/ messages = <<Enable>>
    PROVE  /\ queue' \in Seq(Messages) /\ todo' \subseteq DOMAIN Order
           /\ asked' \in BOOLEAN /\ job' \in Jobs \cup {"none", "nothing"}
<1>1. queue' = queue \o messages /\ queue \in Seq(Messages)
  BY DEF End, Say, TypeOK
<1>2. Line(LastLine) \in Messages /\ Enable \in Messages
  BY MessagesAre, LastLineIsALine
<1>3. CASE messages = <<Enable>>
  BY <1>1, <1>2, <1>3, OneMoreMessage DEF End
<1>4. CASE messages = <<Line(LastLine), Enable>>
  <2>1. queue \o <<Line(LastLine)>> \in Seq(Messages)
    BY <1>1, <1>2, OneMoreMessage
  <2>2. queue' = (queue \o <<Line(LastLine)>>) \o <<Enable>>
    BY <1>1, <1>2, <1>4, TwoMoreMessages, SMTT(30)
  <2>3. queue' \in Seq(Messages)
    BY <1>2, <2>1, <2>2, OneMoreMessage
  <2> QED BY <2>3 DEF End
<1> QED BY <1>3, <1>4

LEMMA CurrentIsADep ==
    ASSUME TypeOK, todo # {}
    PROVE  First \in todo /\ Current \in Deps
  BY FirstIsFirst, PlacesInOrder DEF TypeOK, Current

LEMMA BringsAreDeps == \A d \in Deps : Brings(d) \subseteq Deps
  BY DepsAre DEF Brings

\* The three ways the install of a dependency ends.
LEMMA InstallIs ==
    ASSUME Install
    PROVE  /\ job = "install" /\ todo # {}
           /\ \/ /\ StepsWork(Current) /\ faults' = faults
                 /\ present' = present \cup Brings(Current)
                 /\ repo' = (repo \/ Current = "docker")
                 /\ Settle(Current, Outcome(Current, present', FALSE))
              \/ /\ ~StepsWork(Current) /\ faults' = faults
                 /\ present' = present /\ repo' = repo
                 /\ Settle(Current, Outcome(Current, present', TRUE))
              \/ /\ StepsWork(Current) /\ faults' = faults + 1
                 /\ present' \in {present, present \cup Brings(Current)}
                 /\ repo' \in {repo, repo \/ Current = "docker"}
                 /\ Settle(Current, Outcome(Current, present', TRUE))
  BY DEF Install, host

LEMMA TypeStep ==
    ASSUME TypeOK, AskedInCheck, [Next]_vars
    PROVE  TypeOK'
<1> USE DEF TypeOK
<1>1. CASE Press
  <2>1. todo' \subseteq DOMAIN Order
    BY <1>1 DEF Press, Targets
  <2> QED BY <1>1, <2>1 DEF Press, host
<1>2. CASE Toggle
  BY <1>2 DEF Toggle, host
<1>3. CASE Drain
  <2>1. queue # <<>> /\ queue' = Tail(queue)
    BY <1>3 DEF Drain
  <2>2. queue' \in Seq(Messages) /\ Head(queue) \in Messages
    BY <2>1, OneMessageLess
  <2> DEFINE m == Head(queue)
  <2>3. m.kind = "status" => m.dep \in Deps /\ m.value \in Labels
    BY <2>2 DEF Messages
  <2>4. m.kind = "line" => m.value \in Lines
    BY <2>2 DEF Messages
  <2>5. /\ row' = IF m.kind = "status" THEN [row EXCEPT ![m.dep] = m.value] ELSE row
        /\ line' = IF m.kind = "line" THEN m.value ELSE line
        /\ enabled' = (enabled \/ m.kind = "enable")
        /\ UNCHANGED <<present, repo, status, job, todo, asked, role, faults>>
    BY <1>3 DEF Drain, host
  <2> HIDE DEF m
  <2>6. row' \in [Deps -> Labels] /\ line' \in Lines /\ enabled' \in BOOLEAN
    BY <2>3, <2>4, <2>5
  <2> QED BY <2>2, <2>5, <2>6
<1>4. CASE StartCheck
  <2>1. Status(Current, "checking") \in Messages
    BY <1>4, CurrentIsADep, MessagesAre DEF StartCheck, Labels
  <2>2. queue' \in Seq(Messages)
    BY <1>4, <2>1, OneMoreMessage DEF StartCheck, Say
  <2> QED BY <1>4, <2>2 DEF StartCheck, host, ui
<1>5. CASE EndCheck
  <2>1. Current \in Deps
    BY <1>5, CurrentIsADep DEF EndCheck, AskedInCheck
  <2>2. \E s \in Statuses : Settle(Current, s)
    BY <1>5 DEF EndCheck, Statuses
  <2>3. /\ status' \in [Deps -> Statuses] /\ queue' \in Seq(Messages)
        /\ todo' \subseteq DOMAIN Order /\ asked' \in BOOLEAN
    BY <2>1, <2>2, SettleType
  <2>4. UNCHANGED <<present, repo, row, line, enabled, role, job, faults>>
    BY <1>5 DEF EndCheck, Settle, host, ui
  <2> QED BY <2>3, <2>4
<1>6. CASE Install
  <2>1. Current \in Deps
    BY <1>6, CurrentIsADep DEF Install
  <2>2. \E s \in Statuses : Settle(Current, s)
    BY <1>6, InstallIs, OutcomeIsAStatus
  <2>3. /\ status' \in [Deps -> Statuses] /\ queue' \in Seq(Messages)
        /\ todo' \subseteq DOMAIN Order /\ asked' \in BOOLEAN
    BY <2>1, <2>2, SettleType
  <2>4. UNCHANGED <<row, line, enabled, role, job>>
    BY <2>2 DEF Settle, ui
  <2>5. present' \subseteq Deps /\ repo' \in BOOLEAN
    BY <1>6, <2>1, InstallIs, BringsAreDeps
  <2>6. faults' = faults \/ faults' = faults + 1
    BY <1>6, InstallIs
  <2> QED BY <2>3, <2>4, <2>5, <2>6
<1>7. CASE Finish
  <2>1. \E messages \in {<<Line(LastLine), Enable>>, <<Enable>>} : End(messages)
    BY <1>7 DEF Finish
  <2>2. /\ queue' \in Seq(Messages) /\ todo' \subseteq DOMAIN Order
        /\ asked' \in BOOLEAN /\ job' \in Jobs \cup {"none", "nothing"}
    BY <2>1, EndType
  <2>3. UNCHANGED <<present, repo, row, line, enabled, role, status, faults>>
    BY <1>7 DEF Finish, End, host, ui
  <2> QED BY <2>2, <2>3
<1>8. CASE Raise
  <2>1. End(<<Enable>>) /\ faults' = faults + 1
    BY <1>8 DEF Raise
  <2>2. /\ queue' \in Seq(Messages) /\ todo' \subseteq DOMAIN Order
        /\ asked' \in BOOLEAN /\ job' \in Jobs \cup {"none", "nothing"}
    BY <2>1, EndType
  <2>3. UNCHANGED <<present, repo, row, line, enabled, role, status>>
    BY <2>1 DEF End, host, ui
  <2> QED BY <2>1, <2>2, <2>3
<1>9. CASE UNCHANGED vars
  BY <1>9 DEF vars
<1> QED BY <1>1, <1>2, <1>3, <1>4, <1>5, <1>6, <1>7, <1>8, <1>9 DEF Next, Job

LEMMA EnableIsLastStep ==
    ASSUME TypeOK, EnableIsLast, AskedInCheck, [Next]_vars
    PROVE  EnableIsLast' /\ AskedInCheck'
<1> USE DEF EnableIsLast, AskedInCheck
<1>1. CASE Press
  BY <1>1 DEF Press
<1>2. CASE Toggle
  BY <1>2 DEF Toggle
<1>3. CASE Drain
  <2>1. /\ queue # <<>> /\ queue' = Tail(queue) /\ job' = job
        /\ todo' = todo /\ asked' = asked
        /\ enabled' = (enabled \/ Head(queue).kind = "enable")
    BY <1>3 DEF Drain
  <2>2. queue \in Seq(Messages)
    BY DEF TypeOK
  <2>3. /\ Len(queue') = Len(queue) - 1 /\ Len(queue) \in Nat \ {0}
        /\ queue' \in Seq(Messages)
        /\ \A i \in 1..Len(queue') : queue'[i] = queue[i + 1]
        /\ Head(queue) = queue[1]
    BY <2>1, <2>2, OneMessageLess
  <2>4. ~enabled
    BY <2>1
  <2>5. enabled' => job = "none" /\ Len(queue) = 1
    <3>1. enabled' => Head(queue).kind = "enable"
      BY <2>1, <2>4
    <3>2. queue[1].kind = "enable" => job = "none" /\ 1 = Len(queue)
      BY <2>3
    <3> QED BY <2>3, <3>1, <3>2
  <2>6. \A i \in 1..Len(queue') :
          queue'[i].kind = "enable" => job = "none" /\ i = Len(queue')
    BY <2>3
  <2>7. enabled' => queue' = <<>>
    <3>1. Len(queue) = 1 => queue' = <<>>
      BY <2>3, EmptySeq
    <3> QED BY <2>5, <3>1
  <2> QED BY <2>1, <2>5, <2>6, <2>7
<1>4. ASSUME job # "none", job' = job, enabled' = enabled,
             NEW m \in Messages, m.kind # "enable", queue' = queue \o <<m>>
      PROVE  EnableIsLast'
  <2>1. queue \in Seq(Messages)
    BY DEF TypeOK
  <2>2. /\ Len(queue') = Len(queue) + 1 /\ queue'[Len(queue) + 1] = m
        /\ Len(queue) \in Nat
        /\ \A i \in 1..Len(queue) : queue'[i] = queue[i]
    BY <1>4, <2>1, OneMoreMessage
  <2>3. \A i \in 1..Len(queue') : queue'[i].kind # "enable"
    BY <1>4, <2>2
  <2> QED BY <1>4, <2>3
<1>5. CASE StartCheck
  <2>1. Status(Current, "checking") \in Messages
    BY <1>5, CurrentIsADep, MessagesAre DEF StartCheck, Labels
  <2>2. EnableIsLast'
    BY <1>4, <1>5, <2>1 DEF StartCheck, Say, Status, ui
  <2> QED BY <1>5, <2>2 DEF StartCheck
<1>6. ASSUME NEW s \in Statuses, Settle(Current, s), job # "none", todo # {}
      PROVE  EnableIsLast' /\ AskedInCheck'
  <2>1. Status(Current, s) \in Messages
    BY <1>6, CurrentIsADep, MessagesAre DEF Labels
  <2>2. EnableIsLast'
    BY <1>4, <1>6, <2>1 DEF Settle, Say, Status, ui
  <2> QED BY <1>6, <2>2 DEF Settle
<1>7. CASE EndCheck
  <2>1. \E s \in Statuses : Settle(Current, s)
    BY <1>7 DEF EndCheck, Statuses
  <2> QED BY <1>6, <1>7, <2>1 DEF EndCheck
<1>8. CASE Install
  <2>1. \E s \in Statuses : Settle(Current, s)
    BY <1>8, InstallIs, OutcomeIsAStatus
  <2> QED BY <1>6, <1>8, <2>1 DEF Install
<1>9. ASSUME job # "none", NEW messages \in {<<Line(LastLine), Enable>>, <<Enable>>},
             End(messages)
      PROVE  EnableIsLast' /\ AskedInCheck'
  <2>1. /\ queue \in Seq(Messages) /\ Len(queue) \in Nat /\ queue' = queue \o messages
        /\ job' = "none" /\ enabled' = enabled /\ ~asked'
    BY <1>9 DEF End, Say, ui, TypeOK
  <2>2. Line(LastLine) \in Messages /\ Enable \in Messages
    BY MessagesAre, LastLineIsALine
  <2>3. \A i \in 1..Len(queue) : queue[i].kind # "enable"
    BY <1>9
  <2>4. CASE messages = <<Enable>>
    <3>1. /\ Len(queue') = Len(queue) + 1
          /\ \A i \in 1..Len(queue) : queue'[i] = queue[i]
      BY <2>1, <2>2, <2>4, OneMoreMessage
    <3> QED BY <1>9, <2>1, <2>3, <3>1
  <2>5. CASE messages = <<Line(LastLine), Enable>>
    <3> DEFINE mid == queue \o <<Line(LastLine)>>
    <3>1. /\ mid \in Seq(Messages) /\ Len(mid) = Len(queue) + 1
          /\ mid[Len(queue) + 1] = Line(LastLine)
          /\ \A i \in 1..Len(queue) : mid[i] = queue[i]
      BY <2>1, <2>2, OneMoreMessage
    <3>2. queue' = mid \o <<Enable>>
      BY <2>1, <2>2, <2>5, TwoMoreMessages, SMTT(30)
    <3> HIDE DEF mid
    <3>3. /\ Len(queue') = Len(mid) + 1
          /\ \A i \in 1..Len(mid) : queue'[i] = mid[i]
      BY <2>2, <3>1, <3>2, OneMoreMessage
    <3>4. Line(LastLine).kind # "enable"
      BY DEF Line
    <3>5. ASSUME NEW i \in 1..Len(mid) PROVE mid[i].kind # "enable"
      <4>1. CASE i \in 1..Len(queue)
        <5>1. mid[i] = queue[i] /\ queue[i].kind # "enable"
          BY <2>3, <3>1, <4>1
        <5> QED BY <5>1
      <4>2. CASE i \notin 1..Len(queue)
        <5>1. i = Len(queue) + 1
          BY <2>1, <3>1, <4>2
        <5>2. mid[i] = Line(LastLine)
          BY <3>1, <5>1
        <5> QED BY <3>4, <5>2
      <4> QED BY <4>1, <4>2
    <3>6. \A i \in 1..Len(queue') : queue'[i].kind = "enable" => i = Len(queue')
      BY <2>1, <3>1, <3>3, <3>5
    <3> QED BY <1>9, <2>1, <3>6
  <2> QED BY <2>4, <2>5
<1>10. CASE Finish
  BY <1>9, <1>10 DEF Finish
<1>11. CASE Raise
  BY <1>9, <1>11 DEF Raise
<1>12. CASE UNCHANGED vars
  BY <1>12 DEF vars
<1> QED
  BY <1>1, <1>2, <1>3, <1>5, <1>7, <1>8, <1>10, <1>11, <1>12 DEF Next, Job

------------------------------------------------------------------------------
(* A press finds the table settled.                                        *)

\* The last words of a job are about no row.
LEMMA ShowsEnded ==
    ASSUME TypeOK, NEW messages \in {<<Line(LastLine), Enable>>, <<Enable>>},
           queue' = queue \o messages, NEW w, NEW t, NEW v, Shows(queue, w, t, v)
    PROVE  /\ t \in Deps => Shows(queue', w, t, v)
           /\ t = "line" => Shows(queue', w, t, IF messages = <<Enable>> THEN v ELSE LastLine)
<1>1. queue \in Seq(Messages)
  BY DEF TypeOK
<1>2. Line(LastLine) \in Messages /\ Enable \in Messages
  BY MessagesAre, LastLineIsALine
<1>3. CASE messages = <<Enable>>
  <2>1. Shows(queue', w, t, IF Topic(Enable) = t THEN Enable.value ELSE v)
    BY <1>1, <1>2, <1>3, ShowsSaid
  <2> QED BY <1>3, <2>1, TopicsAre
<1>4. CASE messages = <<Line(LastLine), Enable>>
  <2> DEFINE mid == queue \o <<Line(LastLine)>>
             u == IF Topic(Line(LastLine)) = t THEN Line(LastLine).value ELSE v
  <2>1. mid \in Seq(Messages) /\ Shows(mid, w, t, u)
    BY <1>1, <1>2, OneMoreMessage, ShowsSaid
  <2>2. queue' = mid \o <<Enable>>
    BY <1>1, <1>2, <1>4, TwoMoreMessages, SMTT(30)
  <2>3. /\ t \in Deps => u = v
        /\ t = "line" => u = LastLine
    BY TopicsAre
  <2> HIDE DEF mid, u
  <2>4. Shows(queue', w, t, IF Topic(Enable) = t THEN Enable.value ELSE u)
    BY <1>2, <2>1, <2>2, ShowsSaid
  <2>5. messages # <<Enable>>
    BY <1>4
  <2> QED BY <2>3, <2>4, <2>5, TopicsAre
<1> QED BY <1>3, <1>4

LEMMA RowsStep ==
    ASSUME TypeOK, EnableIsLast, AskedInCheck, RowsWillAgree, [Next]_vars
    PROVE  RowsWillAgree'
<1> SUFFICES ASSUME NEW d \in Deps
             PROVE  \E v \in Labels : (Shows(queue, row[d], d, v) /\ Agrees(v, d))'
  BY DEF RowsWillAgree
<1>1. PICK v \in Labels : Shows(queue, row[d], d, v) /\ Agrees(v, d)
  BY DEF RowsWillAgree
<1>2. queue \in Seq(Messages) /\ status[d] \in Statuses
  BY DEF TypeOK
<1>3. CASE Press
  <2>1. ~asked
    BY <1>3 DEF Press, EnableIsLast, AskedInCheck
  <2>2. Agrees(v, d)'
    BY <1>1, <1>3, <2>1 DEF Press, Agrees
  <2> QED BY <1>1, <1>3, <2>2 DEF Press
<1>4. CASE Toggle
  BY <1>1, <1>4 DEF Toggle, Agrees, Current, First
<1>5. CASE Drain
  <2>1. queue # <<>> /\ queue' = Tail(queue)
    BY <1>5 DEF Drain
  <2>2. Head(queue) \in Messages
    BY <1>2, <2>1, OneMessageLess
  <2>3. row'[d] = IF Topic(Head(queue)) = d THEN Head(queue).value ELSE row[d]
    <3> DEFINE m == Head(queue)
    <3>1. row' = IF m.kind = "status" THEN [row EXCEPT ![m.dep] = m.value] ELSE row
      BY <1>5 DEF Drain
    <3>2. Topic(m) = d <=> m.kind = "status" /\ m.dep = d
      BY <2>2, TopicsAre DEF Topic, Messages
    <3>3. row \in [Deps -> Labels]
      BY DEF TypeOK
    <3> HIDE DEF m
    <3>4. row'[d] = IF Topic(m) = d THEN m.value ELSE row[d]
      BY <3>1, <3>2, <3>3
    <3> QED BY <3>4 DEF m
  <2>4. Shows(queue', row'[d], d, v)
    BY <1>1, <1>2, <2>1, <2>3, ShowsDrain
  <2>5. Agrees(v, d)'
    BY <1>1, <1>5 DEF Drain, Agrees, Current, First
  <2> QED BY <2>4, <2>5
<1>6. CASE StartCheck
  <2>1. /\ queue' = queue \o <<Status(Current, "checking")>> /\ row' = row
        /\ ~asked /\ asked' /\ Current' = Current /\ status' = status /\ faults' = faults
    BY <1>6 DEF StartCheck, Say, ui, Current, First
  <2>2. Status(Current, "checking") \in Messages
    BY <1>6, CurrentIsADep, MessagesAre DEF StartCheck, Labels
  <2>3. Shows(queue', row[d], d, IF Current = d THEN "checking" ELSE v)
    BY <1>1, <1>2, <2>1, <2>2, ShowsSaid, TopicsAre
  <2>4. CASE Current = d
    BY <2>1, <2>3, <2>4 DEF Agrees, Labels
  <2>5. CASE Current # d
    BY <1>1, <2>1, <2>3, <2>5 DEF Agrees
  <2> QED BY <2>4, <2>5
<1>7. ASSUME NEW s \in Statuses, Settle(Current, s), todo # {},
             faults' = faults \/ faults' = faults + 1
      PROVE  \E u \in Labels : (Shows(queue, row[d], d, u) /\ Agrees(u, d))'
  <2>1. /\ queue' = queue \o <<Status(Current, s)>> /\ row' = row
        /\ ~asked' /\ status' = [status EXCEPT ![Current] = s]
    BY <1>7 DEF Settle, Say, ui
  <2>2. Status(Current, s) \in Messages /\ Current \in Deps
    BY <1>7, CurrentIsADep, MessagesAre DEF Labels
  <2>3. Shows(queue', row[d], d, IF Current = d THEN s ELSE v)
    BY <1>1, <1>2, <2>1, <2>2, ShowsSaid, TopicsAre
  <2>4. status \in [Deps -> Statuses] /\ faults \in Nat
    BY DEF TypeOK
  <2>5. CASE Current = d
    BY <2>1, <2>3, <2>4, <2>5 DEF Agrees, Labels
  <2>6. CASE Current # d
    <3>1. status'[d] = status[d]
      BY <2>1, <2>4, <2>6
    <3>2. Agrees(v, d)'
      BY <1>1, <1>7, <2>1, <2>4, <2>6, <3>1 DEF Agrees
    <3> QED BY <2>1, <2>3, <2>6, <3>2
  <2> QED BY <2>5, <2>6
<1>8. CASE EndCheck
  <2>1. \E s \in Statuses : Settle(Current, s)
    BY <1>8 DEF EndCheck, Statuses
  <2> QED BY <1>7, <1>8, <2>1 DEF EndCheck, AskedInCheck
<1>9. CASE Install
  <2>1. \E s \in Statuses : Settle(Current, s)
    BY <1>9, InstallIs, OutcomeIsAStatus
  <2>2. todo # {} /\ (faults' = faults \/ faults' = faults + 1)
    BY <1>9, InstallIs
  <2> QED BY <1>7, <2>1, <2>2
<1>10. ASSUME NEW messages \in {<<Line(LastLine), Enable>>, <<Enable>>}, End(messages),
              (faults' = faults /\ ~asked) \/ faults' = faults + 1
       PROVE  \E u \in Labels : (Shows(queue, row[d], d, u) /\ Agrees(u, d))'
  <2>1. queue' = queue \o messages /\ row' = row /\ status' = status /\ ~asked'
    BY <1>10 DEF End, Say, ui
  <2>2. Shows(queue', row'[d], d, v)
    BY <1>1, <2>1, ShowsEnded
  <2>3. Agrees(v, d)'
    BY <1>1, <1>10, <2>1 DEF Agrees, TypeOK
  <2> QED BY <2>2, <2>3
<1>11. CASE Finish
  BY <1>10, <1>11 DEF Finish, AskedInCheck
<1>12. CASE Raise
  BY <1>10, <1>12 DEF Raise
<1>13. CASE UNCHANGED vars
  BY <1>1, <1>13 DEF vars, Agrees, Current, First
<1> QED
  BY <1>3, <1>4, <1>5, <1>6, <1>8, <1>9, <1>11, <1>12, <1>13 DEF Next, Job

------------------------------------------------------------------------------
(* What is shown as present is on the host.                                *)

\* Nothing is ever removed from the host.
LEMMA HostGrows ==
    ASSUME [Next]_vars
    PROVE  present \subseteq present'
<1>1. CASE Install
  BY <1>1, InstallIs
<1>2. CASE Press \/ Toggle \/ Drain \/ StartCheck \/ EndCheck \/ Finish \/ Raise
  BY <1>2 DEF Press, Toggle, Drain, StartCheck, EndCheck, Finish, Raise, End, host
<1>3. CASE UNCHANGED vars
  BY <1>3 DEF vars
<1> QED BY <1>1, <1>2, <1>3 DEF Next, Job

LEMMA PresentStep ==
    ASSUME TypeOK, AskedInCheck, PresentInv, [Next]_vars
    PROVE  PresentInv'
<1>1. present \subseteq present'
  BY HostGrows
<1>2. queue \in Seq(Messages) /\ Len(queue) \in Nat
  BY DEF TypeOK
<1>3. \A m : TrueOf(present, m) => TrueOf(present', m)
  BY <1>1 DEF TrueOf
<1>4. \A i \in 1..Len(queue) : TrueOf(present, queue[i])
  BY DEF PresentInv
<1>5. ASSUME NEW m \in Messages, TrueOf(present', m), queue' = queue \o <<m>>
      PROVE  \A i \in 1..Len(queue') : TrueOf(present', queue'[i])
  <2>1. /\ Len(queue') = Len(queue) + 1 /\ queue'[Len(queue) + 1] = m
        /\ \A i \in 1..Len(queue) : queue'[i] = queue[i]
    BY <1>2, <1>5, OneMoreMessage
  <2> SUFFICES ASSUME NEW i \in 1..Len(queue')
               PROVE  TrueOf(present', queue'[i])
    OBVIOUS
  <2>2. CASE i = Len(queue) + 1
    BY <1>5, <2>1, <2>2
  <2>3. CASE i \in 1..Len(queue)
    BY <1>3, <1>4, <2>1, <2>3
  <2> QED BY <1>2, <2>1, <2>2, <2>3
<1>6. ASSUME queue' = queue, status' = status, row' = row, line' = line
      PROVE  PresentInv'
  BY <1>1, <1>3, <1>6 DEF PresentInv
<1>7. CASE Press \/ Toggle \/ UNCHANGED vars
  BY <1>6, <1>7 DEF Press, Toggle, vars
<1>8. CASE Drain
  <2> DEFINE m == Head(queue)
  <2>1. /\ queue # <<>> /\ queue' = Tail(queue) /\ status' = status
        /\ row' = IF m.kind = "status" THEN [row EXCEPT ![m.dep] = m.value] ELSE row
        /\ line' = IF m.kind = "line" THEN m.value ELSE line
    BY <1>8 DEF Drain
  <2>2. /\ Len(queue') = Len(queue) - 1 /\ Len(queue) \in Nat \ {0}
        /\ \A i \in 1..Len(queue') : queue'[i] = queue[i + 1]
        /\ m = queue[1] /\ m \in Messages
    BY <1>2, <2>1, OneMessageLess
  <2>3. TrueOf(present', m)
    BY <1>3, <1>4, <2>2
  <2> HIDE DEF m
  <2>4. \A i \in 1..Len(queue') : TrueOf(present', queue'[i])
    BY <1>3, <1>4, <2>2
  <2>5. row \in [Deps -> Labels]
    BY DEF TypeOK
  <2>6. \A d \in Deps : row'[d] = "ok" => d \in present'
    BY <1>1, <2>1, <2>3, <2>5 DEF TrueOf, PresentInv
  <2>7. line' = "all present" => Required \subseteq present'
    BY <1>1, <2>1, <2>3 DEF TrueOf, PresentInv
  <2> QED BY <1>1, <2>1, <2>4, <2>6, <2>7 DEF PresentInv
<1>9. CASE StartCheck
  <2>1. /\ queue' = queue \o <<Status(Current, "checking")>>
        /\ status' = status /\ row' = row /\ line' = line
    BY <1>9 DEF StartCheck, Say, ui
  <2>2. Status(Current, "checking") \in Messages /\ TrueOf(present', Status(Current, "checking"))
    BY <1>9, CurrentIsADep, MessagesAre DEF StartCheck, Labels, TrueOf, Status
  <2>3. \A i \in 1..Len(queue') : TrueOf(present', queue'[i])
    BY <1>5, <2>1, <2>2
  <2> QED BY <1>1, <2>1, <2>3 DEF PresentInv
<1>10. ASSUME NEW s \in Statuses, Settle(Current, s), todo # {},
              s = "ok" => Current \in present'
       PROVE  PresentInv'
  <2>1. /\ queue' = queue \o <<Status(Current, s)>>
        /\ status' = [status EXCEPT ![Current] = s] /\ row' = row /\ line' = line
    BY <1>10 DEF Settle, Say, ui
  <2>2. Status(Current, s) \in Messages /\ TrueOf(present', Status(Current, s))
    BY <1>10, CurrentIsADep, MessagesAre DEF Labels, TrueOf, Status
  <2>3. \A i \in 1..Len(queue') : TrueOf(present', queue'[i])
    BY <1>5, <2>1, <2>2
  <2>4. status \in [Deps -> Statuses]
    BY DEF TypeOK
  <2>5. \A d \in Deps : status'[d] = "ok" => d \in present'
    BY <1>1, <1>10, <2>1, <2>4 DEF PresentInv
  <2> QED BY <1>1, <2>1, <2>3, <2>5 DEF PresentInv
<1>11. CASE EndCheck
  <2>1. PICK s \in Statuses : Settle(Current, s) /\ (s = "ok" => Current \in present)
    BY <1>11 DEF EndCheck, Statuses
  <2> QED BY <1>1, <1>10, <1>11, <2>1 DEF EndCheck, AskedInCheck
<1>12. CASE Install
  <2>1. \E failed \in BOOLEAN : Settle(Current, Outcome(Current, present', failed))
    BY <1>12, InstallIs
  <2>2. \A failed : Outcome(Current, present', failed) = "ok" => Current \in present'
    BY DEF Outcome
  <2>3. todo # {}
    BY <1>12 DEF Install
  <2> QED BY <1>10, <2>1, <2>2, <2>3, OutcomeIsAStatus
<1>13. ASSUME NEW messages \in {<<Line(LastLine), Enable>>, <<Enable>>}, End(messages)
       PROVE  PresentInv'
  <2>1. queue' = queue \o messages /\ row' = row /\ status' = status /\ line' = line
    BY <1>13 DEF End, Say, ui
  <2>2. Line(LastLine) \in Messages /\ Enable \in Messages
    BY MessagesAre, LastLineIsALine
  <2>3. TrueOf(present', Enable)
    BY DEF TrueOf, Enable
  <2>4. TrueOf(present, Line(LastLine))
    <3>1. LastLine = "all present" => Required \subseteq present
      <4>1. LastLine = "all present" => Lacking = {}
        <5>1. CASE job = "check"
          BY <5>1 DEF LastLine
        <5>2. CASE job = "install"
          BY <5>2 DEF LastLine
        <5>3. CASE job \notin {"check", "install"}
          BY <5>3 DEF LastLine
        <5> QED BY <5>1, <5>2, <5>3
      <4>2. Required \subseteq Deps
        BY DEF Required
      <4> QED BY <4>1, <4>2 DEF Lacking, PresentInv
    <3> QED BY <3>1 DEF TrueOf, Line
  <2>5. CASE messages = <<Enable>>
    <3>1. \A i \in 1..Len(queue') : TrueOf(present', queue'[i])
      BY <1>5, <2>1, <2>2, <2>3, <2>5
    <3> QED BY <1>1, <2>1, <3>1 DEF PresentInv
  <2>6. CASE messages = <<Line(LastLine), Enable>>
    <3> DEFINE mid == queue \o <<Line(LastLine)>>
    <3>1. /\ mid \in Seq(Messages) /\ Len(mid) = Len(queue) + 1
          /\ mid[Len(queue) + 1] = Line(LastLine)
          /\ \A i \in 1..Len(queue) : mid[i] = queue[i]
      BY <1>2, <2>2, OneMoreMessage
    <3>2. queue' = mid \o <<Enable>>
      <4>1. queue \o <<Line(LastLine), Enable>> = mid \o <<Enable>>
        BY <1>2, <2>2, TwoMoreMessages
      <4> QED BY <2>1, <2>6, <4>1
    <3> HIDE DEF mid
    <3>3. /\ Len(queue') = Len(mid) + 1 /\ queue'[Len(mid) + 1] = Enable
          /\ \A i \in 1..Len(mid) : queue'[i] = mid[i]
      BY <2>2, <3>1, <3>2, OneMoreMessage
    <3>4. \A i \in 1..Len(mid) : TrueOf(present, mid[i])
      BY <1>2, <1>4, <2>4, <3>1
    <3>5. \A i \in 1..Len(queue') : TrueOf(present', queue'[i])
      <4> SUFFICES ASSUME NEW i \in 1..Len(queue')
                   PROVE  TrueOf(present', queue'[i])
        OBVIOUS
      <4>1. CASE i = Len(mid) + 1
        BY <2>3, <3>3, <4>1
      <4>2. CASE i \in 1..Len(mid)
        BY <1>3, <3>3, <3>4, <4>2
      <4> QED BY <1>2, <3>1, <3>3, <4>1, <4>2
    <3> QED BY <1>1, <2>1, <3>5 DEF PresentInv
  <2> QED BY <2>5, <2>6
<1>14. CASE Finish \/ Raise
  BY <1>13, <1>14 DEF Finish, Raise
<1> QED BY <1>7, <1>8, <1>9, <1>11, <1>12, <1>14 DEF Next, Job

------------------------------------------------------------------------------
(* One pass of installs is enough.                                         *)

(* The order of the list at work: what comes before the dependency at hand *)
(* has been dealt with, so its steps fail only for want of the repository. *)
LEMMA StepsWorkInTurn ==
    ASSUME TypeOK, PresentInv, job = "install", todo # {}, NothingSkipped
    PROVE  ~StepsWork(Current) => Current = "compose" /\ ~repo /\ "docker" \in present
<1>1. todo \subseteq 1..9 /\ First \in todo /\ \A j \in todo : First <= j
  BY FirstIsFirst, OrderIs DEF TypeOK
<1>2. \A i \in 1..9 : i < First => DealtWith(Order[i])
  BY <1>1, OrderIs DEF NothingSkipped
<1>3. \A d \in Deps : status[d] \in {"ok", "error"} /\ d # "compose" => d \in present
  BY DEF NothingSkipped, PresentInv
<1>4. \A d \in {"curl", "gnupg", "ca", "docker"} : d \in Deps /\ (DealtWith(d) => d \in present)
  BY <1>3, DepsAre DEF DealtWith
<1>5. First > 5 => {"curl", "gnupg", "ca"} \subseteq present
  BY <1>1, <1>2, <1>4, OrderIs
<1>6. First > 6 => "docker" \in present
  BY <1>1, <1>2, <1>4, OrderIs
<1>7. Current = Order[First]
  BY DEF Current
<1>8. CASE First = 6
  BY <1>5, <1>7, <1>8, OrderIs DEF StepsWork, Needs
<1>9. CASE First = 7
  BY <1>6, <1>7, <1>9, OrderIs DEF StepsWork, Needs
<1>10. CASE First = 9
  BY <1>5, <1>6, <1>7, <1>10, OrderIs DEF StepsWork, Needs
<1>11. CASE First \in {1, 2, 3, 4, 5, 8}
  <2>1. Current \notin {"docker", "compose", "nvtoolkit"}
    BY <1>7, <1>11, OrderIs
  <2> QED BY <2>1 DEF StepsWork, Needs
<1> QED BY <1>1, <1>8, <1>9, <1>10, <1>11

\* What the install of the dependency at hand leaves, for every way it ends.
LEMMA InstallLeaves ==
    ASSUME TypeOK, Install
    PROVE  \E s \in Statuses :
             /\ Settle(Current, s) /\ s # "unknown"
             /\ s = "missing" => Current \notin present'
             /\ present' \subseteq present \cup Brings(Current)
             /\ repo' # repo => Current = "docker"
             /\ faults' = 0 =>
                  /\ faults = 0
                  /\ s = "error" => /\ ~StepsWork(Current)
                                    /\ present' = present /\ repo' = repo
                  /\ s = "missing" => Current = "nvsmi"
<1>1. repo \in BOOLEAN /\ faults \in Nat
  BY DEF TypeOK
<1>2. Current \in Brings(Current) \/ Current = "nvsmi"
  BY DEF Brings
<1>3. CASE /\ StepsWork(Current) /\ faults' = faults
           /\ present' = present \cup Brings(Current)
           /\ repo' = (repo \/ Current = "docker")
           /\ Settle(Current, Outcome(Current, present', FALSE))
  <2> DEFINE s == Outcome(Current, present', FALSE)
  <2>1. /\ s \in Statuses /\ s \in {"ok", "missing"}
        /\ s = "missing" => Current \notin present'
    BY DEF Outcome, Statuses
  <2>2. s = "missing" => Current = "nvsmi"
    BY <1>2, <1>3, <2>1
  <2>3. repo' # repo => Current = "docker"
    BY <1>1, <1>3
  <2>4. Settle(Current, s) /\ faults' = faults /\ present' \subseteq present \cup Brings(Current)
    BY <1>3
  <2> HIDE DEF s
  <2> QED BY <2>1, <2>2, <2>3, <2>4
<1>4. CASE /\ ~StepsWork(Current) /\ faults' = faults
           /\ present' = present /\ repo' = repo
           /\ Settle(Current, Outcome(Current, present', TRUE))
  <2> DEFINE s == Outcome(Current, present', TRUE)
  <2>1. s \in Statuses /\ s \in {"ok", "error"}
    BY DEF Outcome, Statuses
  <2>2. /\ Settle(Current, s) /\ faults' = faults /\ ~StepsWork(Current)
        /\ present' = present /\ repo' = repo
    BY <1>4
  <2> HIDE DEF s
  <2> QED BY <2>1, <2>2
<1>5. CASE /\ StepsWork(Current) /\ faults' = faults + 1
           /\ present' \in {present, present \cup Brings(Current)}
           /\ repo' \in {repo, repo \/ Current = "docker"}
           /\ Settle(Current, Outcome(Current, present', TRUE))
  <2> DEFINE s == Outcome(Current, present', TRUE)
  <2>1. s \in Statuses /\ s \in {"ok", "error"}
    BY DEF Outcome, Statuses
  <2>2. Settle(Current, s) /\ present' \subseteq present \cup Brings(Current)
    BY <1>5
  <2>3. faults' # 0
    BY <1>1, <1>5
  <2>4. repo' # repo => Current = "docker"
    BY <1>1, <1>5
  <2> HIDE DEF s
  <2> QED BY <2>1, <2>2, <2>3, <2>4
<1> QED BY <1>3, <1>4, <1>5, InstallIs

LEMMA PassInstall ==
    ASSUME TypeOK, PresentInv, PassInv, Install
    PROVE  PassInv'
<1>1. job = "install" /\ job' = "install" /\ todo # {}
  BY InstallIs DEF Settle
<1>2. First \in todo /\ Current \in Deps /\ Current = Order[First] /\ todo \subseteq DOMAIN Order
  BY <1>1, CurrentIsADep DEF Current, TypeOK
<1>3. PICK s \in Statuses :
         /\ Settle(Current, s) /\ s # "unknown"
         /\ s = "missing" => Current \notin present'
         /\ present' \subseteq present \cup Brings(Current)
         /\ repo' # repo => Current = "docker"
         /\ faults' = 0 =>
              /\ faults = 0
              /\ s = "error" => /\ ~StepsWork(Current)
                                /\ present' = present /\ repo' = repo
              /\ s = "missing" => Current = "nvsmi"
  BY InstallLeaves
<1>4. /\ status \in [Deps -> Statuses] /\ repo \in BOOLEAN
      /\ status' = [status EXCEPT ![Current] = s] /\ todo' = todo \ {First}
  BY <1>3 DEF Settle, TypeOK
<1>5. status'[Current] = s /\ \A e \in Deps : e # Current => status'[e] = status[e]
  BY <1>2, <1>4
<1>6. \A i \in DOMAIN Order : i # First => Order[i] \in Deps /\ Order[i] # Current
  BY <1>2, PlacesInOrder
<1>7. status[Current] = "missing"
  BY <1>1, <1>2 DEF PassInv
<1>8. status'["docker"] = "missing" => "docker" \notin present'
  <2>1. CASE Current = "docker"
    BY <1>3, <1>5, <2>1
  <2>2. CASE Current # "docker"
    <3>1. "docker" \notin Brings(Current) /\ "docker" \in Deps
      BY <2>2, DepsAre DEF Brings
    <3> QED BY <1>3, <1>5, <2>2, <3>1 DEF PassInv
  <2> QED BY <2>1, <2>2
<1>9. \A i \in todo' : status'[Order[i]] = "missing"
  BY <1>1, <1>2, <1>4, <1>5, <1>6 DEF PassInv
<1>10. ASSUME faults' = 0
       PROVE  NothingSkipped'
  <2>1. NothingSkipped
    BY <1>3, <1>10 DEF PassInv
  <2>2. ASSUME NEW e \in Deps, status'[e] = "error"
        PROVE  e = "compose" /\ ~repo' /\ "docker" \in present'
    <3>1. CASE e = Current
      <4>1. s = "error"
        BY <1>5, <2>2, <3>1
      <4>2. ~StepsWork(Current) /\ present' = present /\ repo' = repo
        BY <1>3, <1>10, <4>1
      <4> QED BY <1>1, <2>1, <3>1, <4>2, StepsWorkInTurn
    <3>2. CASE e # Current
      <4>1. e = "compose" /\ ~repo /\ "docker" \in present
        BY <1>5, <2>1, <2>2, <3>2 DEF NothingSkipped
      <4>2. Current # "docker"
        BY <1>7, <4>1 DEF PassInv
      <4>3. repo' = repo /\ present \subseteq present'
        BY <1>3, <4>2, InstallIs
      <4> QED BY <4>1, <4>3
    <3> QED BY <3>1, <3>2
  <2>3. ASSUME NEW i \in DOMAIN Order \ todo'
        PROVE  DealtWith(Order[i])'
    <3>1. CASE i = First
      <4>1. s \in {"ok", "error"} \/ Current = "nvsmi"
        BY <1>3, <1>10 DEF Statuses
      <4> QED BY <1>2, <1>5, <3>1, <4>1 DEF DealtWith
    <3>2. CASE i # First
      <4>1. DealtWith(Order[i])
        BY <1>1, <1>4, <2>1, <3>2 DEF NothingSkipped
      <4> QED BY <1>5, <1>6, <3>2, <4>1 DEF DealtWith
    <3> QED BY <3>1, <3>2
  <2>4. \A d \in Deps : Known(d)'
    <3>1. \A d \in Deps : Known(d)
      BY <1>1, <1>2, <1>7, <2>1 DEF NothingSkipped, Known
    <3> QED BY <1>3, <1>5, <3>1 DEF Known
  <2> QED BY <1>1, <2>2, <2>3, <2>4 DEF NothingSkipped
<1> QED BY <1>8, <1>9, <1>10 DEF PassInv

LEMMA PassEndCheck ==
    ASSUME TypeOK, AskedInCheck, PassInv, EndCheck
    PROVE  PassInv'
<1>1. job = "check" /\ job' = "check" /\ todo # {}
  BY DEF EndCheck, AskedInCheck, Settle
<1>2. First \in todo /\ Current \in Deps /\ Current = Order[First] /\ todo \subseteq DOMAIN Order
  BY <1>1, CurrentIsADep DEF Current, TypeOK
<1>3. PICK s \in {"ok", "missing"} :
         /\ s = "missing" => Current \notin present
         /\ status' = [status EXCEPT ![Current] = s] /\ todo' = todo \ {First}
         /\ present' = present /\ repo' = repo /\ faults' = faults
  BY DEF EndCheck, Settle, host
<1>4. status'[Current] = s /\ \A e \in Deps : e # Current => status'[e] = status[e]
  BY <1>2, <1>3 DEF TypeOK
<1>5. \A i \in DOMAIN Order : i # First => Order[i] \in Deps /\ Order[i] # Current
  BY <1>2, PlacesInOrder
<1>6. status'["docker"] = "missing" => "docker" \notin present'
  BY <1>3, <1>4, DepsAre DEF PassInv
<1>7. ASSUME faults' = 0
      PROVE  NothingSkipped'
  <2>1. NothingSkipped
    BY <1>3, <1>7 DEF PassInv
  <2>2. \A e \in Deps : status'[e] = "error" => e = "compose" /\ ~repo' /\ "docker" \in present'
    BY <1>3, <1>4, <2>1 DEF NothingSkipped
  <2>3. \A i \in DOMAIN Order \ todo' : Known(Order[i])'
    BY <1>1, <1>2, <1>3, <1>4, <1>5, <2>1 DEF NothingSkipped, Known
  <2> QED BY <1>1, <2>2, <2>3 DEF NothingSkipped
<1> QED BY <1>1, <1>6, <1>7 DEF PassInv

LEMMA PassStep ==
    ASSUME TypeOK, EnableIsLast, AskedInCheck, PresentInv, PassInv, [Next]_vars
    PROVE  PassInv'
<1>1. CASE Press
  <2>1. /\ job = "none" /\ UNCHANGED <<present, repo, status, faults>>
    BY <1>1 DEF Press, host, EnableIsLast
  <2>2. job' = "install" => todo' = Targets /\ Targets # {}
    BY <1>1 DEF Press, Jobs, Scripts
  <2>3. job' = "check" => todo' = DOMAIN Order
    BY <1>1 DEF Press, Jobs, Scripts
  <2>4. job' = "install" => \A i \in todo' : status'[Order[i]] = "missing"
    BY <2>1, <2>2 DEF Targets
  <2>5. ASSUME faults' = 0
        PROVE  NothingSkipped'
    <3>1. NothingSkipped
      BY <2>1, <2>5 DEF PassInv
    <3>2. (\A d \in Deps : Known(d)) \/ (\A d \in Deps : ~Known(d))
      BY <2>1, <3>1 DEF NothingSkipped
    <3>3. ASSUME job' = "install", NEW i \in DOMAIN Order \ todo'
          PROVE  DealtWith(Order[i])'
      <4>1. Order[i] \in Deps /\ status[Order[i]] # "missing"
        BY <2>2, <3>3, PlacesInOrder DEF Targets
      <4>2. \E d \in Deps : Known(d)
        BY <2>2, <3>3, PlacesInOrder DEF Targets, Known
      <4>3. Known(Order[i])
        BY <3>2, <4>1, <4>2
      <4> QED BY <2>1, <4>1, <4>3 DEF DealtWith, Known, TypeOK, Statuses
    <3>4. \A e \in Deps : status'[e] = "error" => e = "compose" /\ ~repo' /\ "docker" \in present'
      BY <2>1, <3>1 DEF NothingSkipped
    <3>5. (\A d \in Deps : Known(d)') \/ (\A d \in Deps : ~Known(d)')
      BY <2>1, <3>2 DEF Known
    <3> QED BY <2>3, <3>3, <3>4, <3>5 DEF NothingSkipped
  <2> QED BY <2>1, <2>4, <2>5 DEF PassInv
<1>2. CASE Toggle \/ Drain \/ StartCheck \/ UNCHANGED vars
  <2>1. UNCHANGED <<present, repo, status, job, todo, faults>>
    BY <1>2 DEF Toggle, Drain, StartCheck, vars, host
  <2> QED BY <2>1 DEF PassInv, NothingSkipped, Known, DealtWith
<1>3. CASE EndCheck
  BY <1>3, PassEndCheck
<1>4. CASE Install
  BY <1>4, PassInstall
<1>5. CASE Finish
  <2>1. UNCHANGED <<present, repo, status, faults>> /\ job' = "none" /\ todo = {}
    BY <1>5 DEF Finish, End, host
  <2>2. ASSUME faults' = 0
        PROVE  NothingSkipped'
    <3>1. NothingSkipped
      BY <2>1, <2>2 DEF PassInv
    <3>2. (\A d \in Deps : Known(d)) \/ (\A d \in Deps : ~Known(d))
      BY <2>1, <3>1, PlacesInOrder DEF NothingSkipped
    <3>3. (\A d \in Deps : Known(d)') \/ (\A d \in Deps : ~Known(d)')
      BY <2>1, <3>2 DEF Known
    <3> QED BY <2>1, <3>1, <3>3 DEF NothingSkipped
  <2> QED BY <2>1, <2>2 DEF PassInv
<1>6. CASE Raise
  <2>1. UNCHANGED <<present, status>> /\ job' = "none" /\ faults' # 0
    BY <1>6 DEF Raise, End, host, TypeOK
  <2> QED BY <2>1 DEF PassInv
<1> QED BY <1>1, <1>2, <1>3, <1>4, <1>5, <1>6 DEF Next, Job

LEMMA LineStep ==
    ASSUME TypeOK, EnableIsLast, AskedInCheck, PassInv, LineInv, [Next]_vars
    PROVE  LineInv'
<1> DEFINE Pass == "install pass complete"
<1>1. PICK v \in Lines :
         /\ Shows(queue, line, "line", v)
         /\ (v = Pass /\ faults = 0 /\ job \notin {"check", "install"})
              => \A d \in Deps : DealtWith(d)
  BY DEF LineInv
<1>2. queue \in Seq(Messages)
  BY DEF TypeOK
<1> SUFFICES \E u \in Lines :
               /\ Shows(queue', line', "line", u)
               /\ (u = Pass /\ faults' = 0 /\ job' \notin {"check", "install"})
                    => \A d \in Deps : DealtWith(d)'
  BY DEF LineInv
<1>3. CASE Press \/ Toggle \/ UNCHANGED vars
  <2>1. /\ UNCHANGED <<queue, line, status, faults>>
        /\ job' \notin {"check", "install"} => job \notin {"check", "install"}
    BY <1>3 DEF Press, Toggle, vars, EnableIsLast
  <2> QED BY <1>1, <2>1 DEF DealtWith
<1>4. CASE Drain
  <2> DEFINE m == Head(queue)
  <2>1. /\ queue # <<>> /\ queue' = Tail(queue) /\ UNCHANGED <<status, job, faults>>
        /\ line' = IF m.kind = "line" THEN m.value ELSE line
    BY <1>4 DEF Drain
  <2>2. m \in Messages
    BY <1>2, <2>1, OneMessageLess
  <2>3. Topic(m) = "line" <=> m.kind = "line"
    BY <2>2, TopicsAre DEF Topic, Messages
  <2>4. Shows(queue', IF Topic(m) = "line" THEN m.value ELSE line, "line", v)
    BY <1>1, <1>2, <2>1, ShowsDrain
  <2> HIDE DEF m
  <2>5. Shows(queue', line', "line", v)
    BY <2>1, <2>3, <2>4
  <2> QED BY <1>1, <2>1, <2>5 DEF DealtWith
<1>5. ASSUME NEW s \in Labels, job \in {"check", "install"}, job' = job, todo # {},
             queue' = queue \o <<Status(Current, s)>>, line' = line
      PROVE  \E u \in Lines :
               /\ Shows(queue', line', "line", u)
               /\ (u = Pass /\ faults' = 0 /\ job' \notin {"check", "install"})
                    => \A d \in Deps : DealtWith(d)'
  <2>1. Current \in Deps /\ Status(Current, s) \in Messages
    BY <1>5, CurrentIsADep, MessagesAre
  <2>2. Shows(queue', line, "line",
              IF Topic(Status(Current, s)) = "line" THEN Status(Current, s).value ELSE v)
    BY <1>1, <1>2, <1>5, <2>1, ShowsSaid
  <2>3. Topic(Status(Current, s)) # "line"
    BY <2>1, TopicsAre
  <2> QED BY <1>5, <2>2, <2>3
<1>6. CASE StartCheck
  BY <1>5, <1>6 DEF StartCheck, Say, ui, Labels
<1>7. CASE EndCheck
  <2>1. \E s \in Labels : Settle(Current, s)
    BY <1>7 DEF EndCheck, Statuses, Labels
  <2> QED BY <1>5, <1>7, <2>1 DEF EndCheck, AskedInCheck, Settle, Say, ui
<1>8. CASE Install
  <2>1. \E s \in Labels : Settle(Current, s)
    BY <1>8, InstallIs, OutcomeIsAStatus DEF Labels
  <2>2. job = "install" /\ todo # {}
    BY <1>8, InstallIs
  <2> QED BY <1>5, <2>1, <2>2 DEF Settle, Say, ui
<1>9. CASE Finish
  <2>1. PICK messages \in {<<Line(LastLine), Enable>>, <<Enable>>} :
          /\ End(messages)
          /\ messages = <<Enable>> => job = "bootstrap"
    <3>1. <<Line(LastLine), Enable>> # <<Enable>>
      OBVIOUS
    <3> QED BY <1>9, <3>1 DEF Finish
  <2>2. /\ queue' = queue \o messages /\ job' = "none"
        /\ UNCHANGED <<line, status, faults>> /\ todo = {}
    BY <1>9, <2>1 DEF Finish, End, Say, ui
  <2>3. Shows(queue', line', "line", IF messages = <<Enable>> THEN v ELSE LastLine)
    BY <1>1, <2>2, ShowsEnded
  <2>4. CASE messages = <<Enable>>
    BY <1>1, <2>1, <2>2, <2>3, <2>4 DEF DealtWith
  <2>5. CASE messages # <<Enable>>
    <3>1. ASSUME LastLine = Pass, faults' = 0
          PROVE  \A d \in Deps : DealtWith(d)'
      <4>1. job = "install"
        <5>1. job = "check" => LastLine # Pass
          BY DEF LastLine
        <5>2. job \notin {"check", "install"} => LastLine # Pass
          BY DEF LastLine
        <5> QED BY <3>1, <5>1, <5>2
      <4>2. \A i \in DOMAIN Order : DealtWith(Order[i])
        BY <2>2, <3>1, <4>1 DEF PassInv, NothingSkipped
      <4>3. \A d \in Deps : DealtWith(d)
        BY <4>2, PlacesInOrder
      <4> QED BY <2>2, <4>3 DEF DealtWith
    <3> QED BY <2>3, <2>5, <3>1, LastLineIsALine
  <2> QED BY <2>4, <2>5
<1>10. CASE Raise
  <2>1. /\ End(<<Enable>>) /\ queue' = queue \o <<Enable>> /\ line' = line /\ faults' # 0
    BY <1>10 DEF Raise, End, Say, ui, TypeOK
  <2>2. Shows(queue', line', "line", v)
    BY <1>1, <2>1, ShowsEnded
  <2> QED BY <2>1, <2>2
<1> QED
  BY <1>3, <1>4, <1>6, <1>7, <1>8, <1>9, <1>10 DEF Next, Job

------------------------------------------------------------------------------
(* The theorems.                                                           *)

Inv == /\ TypeOK /\ EnableIsLast /\ AskedInCheck /\ RowsWillAgree
       /\ PresentInv /\ PassInv /\ LineInv

LEMMA InvInit ==
    ASSUME Init
    PROVE  Inv
<1>1. /\ present \subseteq Deps /\ repo \in BOOLEAN /\ line = "idle" /\ enabled = TRUE
      /\ queue = <<>> /\ job = "none" /\ todo = {} /\ asked = FALSE
      /\ role = "master" /\ faults = 0 /\ row = status
      /\ status = [d \in Deps |-> "unknown"]
  BY DEF Init
<1>2. TypeOK
  <2>1. <<>> \in Seq(Messages)
    BY EmptySeq
  <2>2. status \in [Deps -> Statuses] /\ row \in [Deps -> Labels]
    BY <1>1 DEF Statuses, Labels
  <2>3. line \in Lines /\ todo \subseteq DOMAIN Order
    BY <1>1 DEF Lines
  <2> QED BY <1>1, <2>1, <2>2, <2>3 DEF TypeOK
<1>3. EnableIsLast /\ AskedInCheck
  BY <1>1 DEF EnableIsLast, AskedInCheck
<1>4. RowsWillAgree
  <2>1. Len(<<>>) = 0
    OBVIOUS
  <2>2. \A d \in Deps : status[d] \in Labels /\ Shows(queue, row[d], d, status[d])
    BY <1>1, <2>1 DEF Shows, Statuses, Labels
  <2> QED BY <2>2 DEF RowsWillAgree, Agrees
<1>5. PresentInv
  BY <1>1 DEF PresentInv
<1>6. PassInv
  <2>1. \A d \in Deps : status[d] = "unknown"
    BY <1>1
  <2> QED BY <1>1, <2>1, DepsAre DEF PassInv, NothingSkipped, Known
<1>7. LineInv
  <2>1. Len(<<>>) = 0
    OBVIOUS
  <2>2. "idle" \in Lines /\ Shows(queue, line, "line", "idle")
    BY <1>1, <2>1 DEF Shows, Lines
  <2> QED BY <2>2 DEF LineInv
<1> QED BY <1>2, <1>3, <1>4, <1>5, <1>6, <1>7 DEF Inv

LEMMA InvStep ==
    ASSUME Inv, [Next]_vars
    PROVE  Inv'
<1>1. TypeOK' /\ EnableIsLast' /\ AskedInCheck'
  BY TypeStep, EnableIsLastStep DEF Inv
<1>2. RowsWillAgree' /\ PresentInv'
  BY RowsStep, PresentStep DEF Inv
<1>3. PassInv' /\ LineInv'
  BY PassStep, LineStep DEF Inv
<1> QED BY <1>1, <1>2, <1>3 DEF Inv

(* Every reachable state has the shape above, its messages under way       *)
(* agree with the statuses and with the host, and the passes that were     *)
(* reported were complete.                                                 *)
THEOREM WizardInvariant == Spec => []Inv
<1>1. Init => Inv
  BY InvInit
<1>2. Inv /\ [Next]_vars => Inv'
  BY InvStep
<1> QED BY <1>1, <1>2, PTL DEF Spec

(* _thread never starts a job beside another, and what it starts from is   *)
(* what the table shows (_drain_queue has nothing left to deliver).        *)
THEOREM PressesFindItSettled == Spec => []PressFindsTheTableSettled
<1>1. Inv => PressFindsTheTableSettled
  <2> SUFFICES ASSUME Inv, enabled, NEW d \in Deps
               PROVE  /\ job = "none" /\ queue = <<>>
                      /\ row[d] = status[d] \/ (row[d] = "checking" /\ faults > 0)
    BY DEF PressFindsTheTableSettled, Inv, EnableIsLast
  <2>1. queue = <<>> /\ job = "none" /\ ~asked
    BY DEF Inv, EnableIsLast, AskedInCheck
  <2>2. PICK v \in Labels : Shows(queue, row[d], d, v) /\ Agrees(v, d)
    BY DEF Inv, RowsWillAgree
  <2>3. row[d] = v
    BY <2>1, <2>2, ShowsDelivered
  <2> QED BY <2>1, <2>2, <2>3 DEF Agrees
<1> QED BY <1>1, WizardInvariant, PTL

(* The rows and "All required dependencies present." never promise what    *)
(* the host does not have, however late they are drawn.                    *)
THEOREM PresentIsPresent == Spec => []PresentIsOnTheHost
<1>1. Inv => PresentIsOnTheHost
  BY DEF Inv, PresentInv, PresentIsOnTheHost
<1> QED BY <1>1, WizardInvariant, PTL

(* The order of build_dependencies is one in which every install finds     *)
(* what it needs: an undisturbed pass leaves the driver, and docker        *)
(* compose where nobody configured its repository, and nothing else.       *)
THEOREM OnePassIsEnough == Spec => []OnePassInstalls
<1>1. Inv => OnePassInstalls
  <2> SUFFICES ASSUME Inv, enabled, line = "install pass complete", faults = 0,
                      NEW d \in Deps \ {"nvsmi"}
               PROVE  status[d] = "ok" \/ (d = "compose" /\ ~repo)
    BY DEF OnePassInstalls
  <2>1. queue = <<>> /\ job = "none"
    BY DEF Inv, EnableIsLast
  <2>2. DealtWith(d)
    BY <2>1, ShowsDelivered DEF Inv, LineInv
  <2>3. status[d] = "error" => d = "compose" /\ ~repo
    BY DEF Inv, PassInv, NothingSkipped
  <2> QED BY <2>2, <2>3 DEF DealtWith
<1> QED BY <1>1, WizardInvariant, PTL

------------------------------------------------------------------------------
(* The buttons come back: what is left of it without the scheduler.        *)

OnlyLoopsHaveTargets == todo # {} => job \in {"check", "install"}

EnableUnderWay ==
    ~enabled /\ job = "none" => queue # <<>> /\ queue[Len(queue)] = Enable

LEMMA OwedInit == Init => OnlyLoopsHaveTargets /\ EnableUnderWay
  BY DEF Init, OnlyLoopsHaveTargets, EnableUnderWay

\* A job that ends leaves its "enable" behind, as the last message.
LEMMA EndOwes ==
    ASSUME Inv, NEW messages \in {<<Line(LastLine), Enable>>, <<Enable>>}, End(messages)
    PROVE  OnlyLoopsHaveTargets' /\ EnableUnderWay'
<1>1. todo' = {} /\ queue' = queue \o messages /\ queue \in Seq(Messages)
  BY DEF End, Say, Inv, TypeOK
<1>2. Line(LastLine) \in Messages /\ Enable \in Messages
  BY MessagesAre, LastLineIsALine
<1>3. \E q \in Seq(Messages) : queue' = q \o <<Enable>>
  <2>1. CASE messages = <<Enable>>
    BY <1>1, <2>1
  <2>2. CASE messages = <<Line(LastLine), Enable>>
    <3>1. queue \o <<Line(LastLine)>> \in Seq(Messages)
      BY <1>1, <1>2, OneMoreMessage
    <3>2. queue' = (queue \o <<Line(LastLine)>>) \o <<Enable>>
      BY <1>1, <1>2, <2>2, TwoMoreMessages, SMTT(30)
    <3> QED BY <3>1, <3>2
  <2> QED BY <2>1, <2>2
<1>4. PICK q \in Seq(Messages) : queue' = q \o <<Enable>>
  BY <1>3
<1>5. queue' \in Seq(Messages) /\ Len(queue') = Len(q) + 1 /\ queue'[Len(q) + 1] = Enable
  BY <1>2, <1>4, OneMoreMessage
<1>6. Len(queue') # 0
  BY <1>5
<1>7. queue' # <<>>
  BY <1>6
<1> QED BY <1>1, <1>5, <1>7 DEF OnlyLoopsHaveTargets, EnableUnderWay

LEMMA OwedStep ==
    ASSUME Inv, OnlyLoopsHaveTargets, EnableUnderWay, [Next]_vars
    PROVE  OnlyLoopsHaveTargets' /\ EnableUnderWay'
<1> USE DEF OnlyLoopsHaveTargets, EnableUnderWay
<1>1. CASE Press
  <2>1. job' # "none" /\ (todo' # {} => job' \in {"check", "install"})
    BY <1>1 DEF Press, Jobs, Scripts
  <2> QED BY <2>1
<1>2. CASE Toggle
  BY <1>2 DEF Toggle
<1>3. CASE Drain
  <2>1. /\ queue # <<>> /\ queue' = Tail(queue) /\ job' = job /\ todo' = todo
        /\ enabled' = (enabled \/ Head(queue).kind = "enable")
    BY <1>3 DEF Drain
  <2>2. queue \in Seq(Messages)
    BY DEF Inv, TypeOK
  <2>3. /\ Len(queue') = Len(queue) - 1 /\ Len(queue) \in Nat \ {0}
        /\ queue' \in Seq(Messages)
        /\ \A i \in 1..Len(queue') : queue'[i] = queue[i + 1]
        /\ Head(queue) = queue[1]
    BY <2>1, <2>2, OneMessageLess
  <2>4. ASSUME ~enabled', job' = "none" PROVE queue' # <<>> /\ queue'[Len(queue')] = Enable
    <3>1. queue[Len(queue)] = Enable
      BY <2>1, <2>4
    <3>2. Enable.kind = "enable"
      BY DEF Enable
    <3>3. Len(queue) # 1
      BY <2>1, <2>3, <2>4, <3>1, <3>2
    <3>4. Len(queue') \in 1..Len(queue') /\ Len(queue') + 1 = Len(queue) /\ Len(queue') # 0
      BY <2>3, <3>3
    <3>5. queue' # <<>>
      BY <3>4
    <3> QED BY <2>3, <3>1, <3>4, <3>5
  <2> QED BY <2>1, <2>4
<1>4. CASE StartCheck
  BY <1>4 DEF StartCheck
<1>5. ASSUME NEW d, NEW s, Settle(d, s), job # "none"
      PROVE  OnlyLoopsHaveTargets' /\ EnableUnderWay'
  BY <1>5 DEF Settle
<1>6. CASE EndCheck
  BY <1>5, <1>6 DEF EndCheck
<1>7. CASE Install
  BY <1>5, <1>7, InstallIs
<1>8. CASE Finish
  BY <1>8, EndOwes DEF Finish
<1>9. CASE Raise
  BY <1>9, EndOwes DEF Raise
<1>10. CASE UNCHANGED vars
  BY <1>10 DEF vars
<1> QED BY <1>1, <1>2, <1>3, <1>4, <1>6, <1>7, <1>8, <1>9, <1>10 DEF Next, Job

(* _wrap puts "enable" in a finally: whatever a job runs and wherever it   *)
(* raises, disabled buttons have a thread with a step left, or an "enable" *)
(* on its way to them.                                                     *)
THEOREM DisabledButtonsAreOwed == Spec => []ButtonsAreOwed
<1> DEFINE Owed == Inv /\ OnlyLoopsHaveTargets /\ EnableUnderWay
<1>1. Init => Owed
  BY InvInit, OwedInit
<1>2. Owed /\ [Next]_vars => Owed'
  <2>1. Inv /\ [Next]_vars => Inv'
    BY InvStep
  <2> QED BY <2>1, OwedStep
<1>3. Owed => ButtonsAreOwed
  BY DEF OnlyLoopsHaveTargets, EnableUnderWay, ButtonsAreOwed
<1> QED BY <1>1, <1>2, <1>3, PTL DEF Spec

\* There is one target less once one is dealt with.
LEMMA OneTargetLess ==
    ASSUME Inv, todo # {}
    PROVE  /\ Cardinality(todo) \in Nat \ {0}
           /\ Cardinality(todo \ {First}) = Cardinality(todo) - 1
<1>1. IsFiniteSet(todo)
  <2>1. todo \in SUBSET (1..9)
    BY OrderIs DEF Inv, TypeOK
  <2>2. IsFiniteSet(1..9)
    <3>1. 1 \in Int /\ 9 \in Int
      OBVIOUS
    <3> QED BY <3>1, FS_Interval, Zenon
  <2> QED BY <2>1, <2>2, FS_Subset
<1>2. First \in todo
  BY CurrentIsADep DEF Inv
<1>3. Cardinality(todo) \in Nat /\ Cardinality(todo) # 0
  BY <1>1, FS_CardinalityType, FS_EmptySet
<1>4. Cardinality(todo \ {First}) = Cardinality(todo) - 1
  BY <1>1, <1>2, FS_RemoveElement
<1> QED BY <1>3, <1>4

LEMMA LeftIsPositive ==
    ASSUME Inv, job # "none"
    PROVE  Left \in Nat /\ Left > 0
<1>1. CASE todo = {}
  <2>1. ~asked /\ Cardinality(todo) = 0
    BY <1>1, FS_EmptySet DEF Inv, AskedInCheck
  <2> QED BY <2>1 DEF Left
<1>2. CASE todo # {}
  <2>1. Cardinality(todo) \in Nat \ {0}
    BY <1>2, OneTargetLess
  <2> QED BY <2>1 DEF Left
<1> QED BY <1>1, <1>2

(* _drain_queue only takes messages, the loops of _do_checks and           *)
(* _do_installs only take targets, so a job comes to an end, whatever the  *)
(* installs come to.                                                       *)
THEOREM EveryJobWindsDown == Spec => JobsWindDown
<1> DEFINE Winds == ~enabled => \/ Left' < Left
                                \/ Left' = Left /\ (queue' = queue \/ queue' = Tail(queue))
<1>1. ASSUME Inv, Next PROVE Winds
  <2>1. CASE Press
    BY <2>1 DEF Press
  <2>2. CASE Toggle
    BY <2>2 DEF Toggle, Left
  <2>3. CASE Drain
    BY <2>3 DEF Drain, Left
  <2>4. CASE StartCheck
    <3>1. /\ job # "none" /\ job' = job /\ todo' = todo /\ ~asked /\ asked'
          /\ todo # {}
      BY <2>4 DEF StartCheck
    <3>2. Cardinality(todo) \in Nat
      BY <1>1, <3>1, OneTargetLess
    <3> QED BY <3>1, <3>2 DEF Left
  <2>5. ASSUME NEW d, NEW s, Settle(d, s), job # "none", todo # {} PROVE Winds
    <3>1. job' = job /\ todo' = todo \ {First} /\ ~asked'
      BY <2>5 DEF Settle
    <3>2. /\ Cardinality(todo) \in Nat \ {0}
          /\ Cardinality(todo') = Cardinality(todo) - 1
      BY <1>1, <2>5, <3>1, OneTargetLess
    <3>3. /\ Left' = 1 + 2 * Cardinality(todo') - 0
          /\ Left = 1 + 2 * Cardinality(todo) - (IF asked THEN 1 ELSE 0)
      BY <2>5, <3>1 DEF Left
    <3> DEFINE n == Cardinality(todo)
               l == Cardinality(todo')
               a == IF asked THEN 1 ELSE 0
    <3>4. a \in {0, 1} /\ n \in Nat \ {0} /\ l = n - 1
      BY <3>2
    <3> HIDE DEF n, l, a
    <3>5. 1 + 2 * l - 0 < 1 + 2 * n - a
      BY ONLY <3>4
    <3>6. Left' = 1 + 2 * l - 0 /\ Left = 1 + 2 * n - a
      BY <3>3 DEF n, l, a
    <3> QED BY <3>5, <3>6
  <2>6. CASE EndCheck
    BY <1>1, <2>5, <2>6 DEF EndCheck, Inv, AskedInCheck
  <2>7. CASE Install
    BY <2>5, <2>7, InstallIs
  <2>8. ASSUME NEW messages, End(messages), job # "none" PROVE Winds
    <3>1. Left' = 0
      BY <2>8 DEF End, Left
    <3> QED BY <1>1, <2>8, <3>1, LeftIsPositive
  <2>9. CASE Finish
    BY <2>8, <2>9 DEF Finish
  <2>10. CASE Raise
    BY <2>8, <2>10 DEF Raise
  <2> QED BY <1>1, <2>1, <2>2, <2>3, <2>4, <2>6, <2>7, <2>9, <2>10 DEF Next, Job
<1>2. Inv /\ [Next]_vars => [Winds]_vars
  BY <1>1
<1>3. Spec => [][Winds]_vars
  BY <1>2, WizardInvariant, PTL DEF Spec
<1> QED BY <1>3 DEF JobsWindDown

=============================================================================
