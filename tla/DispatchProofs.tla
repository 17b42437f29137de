--------------------------- MODULE DispatchProofs ---------------------------
(***************************************************************************)
(* Subscriptions for any number of connections, copies and mutations: as   *)
(* long as every mutation is followed by notify_history_changed on the     *)
(* main loop (~PickerEdits), no wake-up is lost.                           *)
(***************************************************************************)
EXTENDS Dispatch, TLAPS

\* A connection is in the queue, or read by the loop, or served by a thread.
ServedOnce ==
  /\ \A i \in DOMAIN queue : queue[i].kind = "conn" =>
       LET c == queue[i].client
       IN  /\ c \in Clients /\ worker[c] = "none" /\ phase[c] # "away"
           /\ loop.at = "read" => loop.client # c
           /\ \A j \in DOMAIN queue :
                queue[j].kind = "conn" /\ queue[j].client = c => j = i
  /\ loop.at = "read" =>
       /\ loop.client \in Clients /\ worker[loop.client] = "none"
       /\ phase[loop.client] # "away"
  /\ \A c \in Clients : phase[c] = "away" => worker[c] = "none"

\* What the registry lists is a subscription; one that ended has no client.
RegistryIsOfSubscribers ==
  \A c \in registry :
    /\ worker[c] \in {"wake", "recv", "push", "over"}
    /\ worker[c] = "over" => phase[c] = "gone"

\* Threads that serve no subscription answer a picker.
PickersShow == \A c \in Clients : worker[c] = "picking" => line[c] = "show"

Inv  == TypeOK /\ ServedOnce /\ RegistryIsOfSubscribers /\ PickersShow
IInv == Inv /\ NoLostWakeup

-----------------------------------------------------------------------------
\* What Head, Tail and Append do to a queue of events.
LEMMA QueueTail ==
  ASSUME queue \in Seq(Events), queue # <<>>
  PROVE  /\ Tail(queue) \in Seq(Events) /\ Head(queue) \in Events
         /\ Head(queue) = queue[1] /\ 1 \in DOMAIN queue
         /\ \A i \in DOMAIN Tail(queue) :
              /\ i + 1 \in DOMAIN queue /\ i + 1 # 1
              /\ Tail(queue)[i] = queue[i + 1]
  OBVIOUS

\* Appending an event keeps the others where they are.
LEMMA QueueAppend ==
  ASSUME queue \in Seq(Events), NEW e \in Events
  PROVE  /\ Append(queue, e) \in Seq(Events)
         /\ \A i \in DOMAIN Append(queue, e) :
              \/ i \in DOMAIN queue /\ Append(queue, e)[i] = queue[i]
              \/ i = Len(queue) + 1 /\ i \notin DOMAIN queue /\ Append(queue, e)[i] = e
  OBVIOUS

\* At the start nobody is connected.
LEMMA InitIInv == Init => IInv
  BY BoundAssumption, ClientAssumption
     DEF Init, IInv, Inv, TypeOK, ServedOnce, RegistryIsOfSubscribers, PickersShow,
         NoLostWakeup, Subscribed, Latest, Events

LoopStates == [at : {"recv", "read", "prune", "notify", "done"}, client : Clients \cup {None}]
Phases     == [Clients -> {"away", "connected", "answered", "gone"}]
Labels     == {"none", "picking", "register", "wake", "recv", "push", "over"}

\* The steps of the main loop, of the clients and of the workers keep the
\* variables they set well typed.
LEMMA Typing ==
  ASSUME TypeOK
  PROVE  /\ \A at \in {"recv", "read", "prune", "notify", "done"}, c \in Clients \cup {None} :
              Goto(at, c) => loop' \in LoopStates
         /\ \A c \in Clients : Answer(c) => phase' \in Phases
         /\ \A c \in Clients, label \in Labels :
              Work(c, label) => worker' \in [Clients -> Labels]
         /\ Mutate => version' \in Nat
         /\ loop \in LoopStates /\ phase \in Phases /\ worker \in [Clients -> Labels]
         /\ AfterNotify => phase' \in Phases /\ loop' \in LoopStates
         /\ loop.client \in Clients \cup {None}
  <1> USE DEF TypeOK, LoopStates, Phases, Labels
  <1>1. ASSUME NEW c \in Clients, Answer(c) PROVE phase' \in Phases
    BY <1>1 DEF Answer
  <1>2. ASSUME NEW c \in Clients, NEW label \in Labels, Work(c, label)
        PROVE  worker' \in [Clients -> Labels]
    BY <1>2 DEF Work
  <1>3. ASSUME NEW at \in {"recv", "read", "prune", "notify", "done"},
               NEW c \in Clients \cup {None}, Goto(at, c)
        PROVE  loop' \in LoopStates
    BY <1>3 DEF Goto
  <1>4. Mutate => version' \in Nat
    BY DEF Mutate
  <1>5. loop.client \in Clients \cup {None}
    OBVIOUS
  <1>6. loop \in LoopStates /\ phase \in Phases /\ worker \in [Clients -> Labels]
    OBVIOUS
  <1>7. AfterNotify => phase' \in Phases /\ loop' \in LoopStates
    BY <1>1, <1>3, <1>5, <1>6 DEF AfterNotify
  <1> QED
    BY <1>1, <1>2, <1>3, <1>4, <1>5, <1>6, <1>7

\* Every step of every thread keeps queues, channels and phases well typed.
LEMMA TypeStep == TypeOK /\ [Next]_vars => TypeOK'
  <1> SUFFICES ASSUME TypeOK, [Next]_vars PROVE TypeOK'
    OBVIOUS
  <1> DEFINE Small == /\ version' \in Nat /\ copies' \in 0..MaxCopies
                      /\ queue' \in Seq(Events)
                      /\ loop' \in LoopStates /\ phase' \in Phases
                      /\ worker' \in [Clients -> Labels]
             Subs  == /\ registry' \subseteq Clients
                      /\ signals' \in [Clients -> Nat] /\ read' \in [Clients -> Nat]
                      /\ shown' \in [Clients -> Nat]
             Lines == line' \in [Clients -> Requests \cup {None}]
  <1>a. Small /\ Subs /\ Lines => TypeOK'
    BY DEF TypeOK, LoopStates, Phases, Labels
  <1>b. /\ version \in Nat /\ copies \in 0..MaxCopies /\ queue \in Seq(Events)
        /\ loop \in LoopStates /\ phase \in Phases /\ worker \in [Clients -> Labels]
        /\ loop.client \in Clients \cup {None}
    BY Typing DEF TypeOK
  <1>c. UNCHANGED line => Lines
    BY DEF TypeOK
  <1>d. UNCHANGED subscription => Subs
    BY DEF TypeOK, subscription
  <1>1. CASE UNCHANGED vars
    BY <1>1 DEF vars, TypeOK
  <1>2. CASE HandleCopy \/ HandleConn \/ HandleShutdown
    <2>1. queue # <<>> /\ queue' = Tail(queue)
      BY <1>2 DEF HandleCopy, HandleConn, HandleShutdown, Take
    <2>2. queue' \in Seq(Events) /\ Head(queue) \in Events
      BY <1>b, <2>1, QueueTail
    <2>3. Head(queue).client \in Clients \cup {None}
      BY <2>2 DEF Events
    <2>4. CASE HandleCopy
      BY <1>a, <1>b, <1>c, <1>d, <2>2, <2>4, Typing DEF HandleCopy
    <2>5. CASE HandleConn
      BY <1>a, <1>b, <1>c, <1>d, <2>2, <2>3, <2>5, Typing DEF HandleConn
    <2>6. CASE HandleShutdown
      <3>1. phase' \in Phases
        BY <1>b, <2>6 DEF HandleShutdown, Phases
      <3> QED
        BY <1>a, <1>b, <1>c, <1>d, <2>2, <2>6, <3>1, Typing DEF HandleShutdown
    <2> QED
      BY <1>2, <2>4, <2>5, <2>6
  <1>3. CASE Prune
    BY <1>a, <1>b, <1>c, <1>d, <1>3, Typing DEF Prune
  <1>4. CASE Notify
    <2>1. signals' \in [Clients -> Nat]
      <3>1. \A c \in Clients : signals[c] + (IF c \in Live THEN 1 ELSE 0) \in Nat
        BY DEF TypeOK
      <3> QED
        BY <1>4, <3>1 DEF Notify
    <2>2. Subs
      BY <1>4, <2>1 DEF Notify, Live, TypeOK
    <2> QED
      BY <1>a, <1>b, <1>c, <1>4, <2>2, Typing DEF Notify
  <1>5. ASSUME NEW c \in Clients, ServeList(c) \/ ServeEdit(c) \/ ReadNothing(c)
        PROVE  TypeOK'
    BY <1>a, <1>b, <1>c, <1>d, <1>5, Typing DEF ServeList, ServeEdit, ReadNothing
  <1>6. ASSUME NEW c \in Clients, ServeSlowly(c)
        PROVE  TypeOK'
    <2>1. (IF line[c] = "show" THEN "picking" ELSE "register") \in Labels
      BY DEF Labels
    <2> QED
      BY <1>a, <1>b, <1>c, <1>d, <1>6, <2>1, Typing DEF ServeSlowly
  <1>7. ASSUME NEW c \in Clients, ServeStop(c) \/ Connect(c)
        PROVE  TypeOK'
    <2>1. Event("shutdown", None) \in Events /\ Event("conn", c) \in Events
      BY DEF Events, Event
    <2>2. queue' \in Seq(Events)
      BY <1>b, <1>7, <2>1, QueueAppend DEF ServeStop, Connect
    <2>3. phase' \in Phases
      BY <1>b, <1>7, Typing DEF ServeStop, Connect, Phases
    <2> QED
      BY <1>a, <1>b, <1>c, <1>d, <1>7, <2>2, <2>3, Typing DEF ServeStop, Connect
  <1>8. CASE Copy
    <2>1. Event("copy", None) \in Events
      BY DEF Events, Event
    <2>2. queue' \in Seq(Events) /\ copies' \in 0..MaxCopies
      BY <1>b, <1>8, <2>1, QueueAppend, BoundAssumption DEF Copy
    <2> QED
      BY <1>a, <1>b, <1>c, <1>d, <1>8, <2>2 DEF Copy
  <1>9. ASSUME NEW c \in Clients, NEW r \in Requests, Ask(c, r)
        PROVE  TypeOK'
    <2>1. Lines
      BY <1>9 DEF Ask, TypeOK
    <2> QED
      BY <1>a, <1>b, <1>d, <1>9, <2>1 DEF Ask
  <1>10. ASSUME NEW c \in Clients, Leave(c)
        PROVE  TypeOK'
    <2>1. phase' \in Phases
      BY <1>b, <1>10 DEF Leave, Phases
    <2> QED
      BY <1>a, <1>b, <1>c, <1>d, <1>10, <2>1 DEF Leave
  <1>11. ASSUME NEW c \in Clients, Picked(c)
        PROVE  TypeOK'
    BY <1>a, <1>b, <1>c, <1>d, <1>11, Typing DEF Picked, Labels
  <1>12. ASSUME NEW c \in Clients, Serve(c)
        PROVE  TypeOK'
    <2>1. Subs
      BY <1>12 DEF Serve, Prepare, Register, WakeSelf, ReadSnapshot, Push, Hangup, TypeOK
    <2>2. worker' \in [Clients -> Labels]
      BY <1>12, <1>b DEF Serve, Prepare, Register, WakeSelf, ReadSnapshot, Push, Hangup,
                         Work, Labels
    <2>3. UNCHANGED <<version, copies, queue, loop, line, phase>>
      BY <1>12 DEF Serve, Prepare, Register, WakeSelf, ReadSnapshot, Push, Hangup
    <2> QED
      BY <1>a, <1>b, <1>c, <2>1, <2>2, <2>3
  <1> QED
    BY <1>1, <1>2, <1>3, <1>4, <1>5, <1>6, <1>7, <1>8, <1>9, <1>10, <1>11, <1>12
       DEF Next, MainLoop

-----------------------------------------------------------------------------
(* A connection is served once.                                            *)

\* What a step may do to phases: connections open once, and who is gone stays
\* gone.
LEMMA PhaseStep ==
  ASSUME TypeOK, [Next]_vars, NEW d \in Clients
  PROVE  /\ phase[d] = "gone" => phase'[d] = "gone"
         /\ phase[d] # "away" => phase'[d] # "away"
         /\ phase'[d] = "connected" => phase[d] = "connected" \/ Connect(d)
  <1> USE ClientAssumption DEF TypeOK, Answer
  <1>1. CASE UNCHANGED phase
    BY <1>1
  <1>2. CASE \E c \in Clients : Connect(c)
    BY <1>2 DEF Connect
  <1>3. ASSUME NEW c \in Clients, Answer(c)
        PROVE  /\ phase[d] = "gone" => phase'[d] = "gone"
               /\ phase[d] # "away" => phase'[d] # "away"
               /\ phase'[d] = "connected" => phase[d] = "connected"
    BY <1>3
  <1>4. CASE Notify
    <2>1. phase' = phase \/ \E c \in Clients : Answer(c)
      BY <1>4 DEF Notify, AfterNotify
    <2> QED
      BY <2>1, <1>1, <1>3
  <1>5. CASE \E c \in Clients : Leave(c)
    BY <1>5 DEF Leave
  <1>6. CASE HandleShutdown
    BY <1>6 DEF HandleShutdown
  <1>7. CASE \E c \in Clients : ServeList(c) \/ ServeEdit(c) \/ ServeStop(c) \/ Picked(c)
    <2>1. phase' = phase \/ \E c \in Clients : Answer(c)
      BY <1>7 DEF ServeList, ServeEdit, ServeStop, Picked
    <2> QED
      BY <2>1, <1>1, <1>3
  <1> HIDE DEF TypeOK, Answer
  <1>8. \/ UNCHANGED phase
        \/ Notify \/ HandleShutdown
        \/ \E c \in Clients :
             \/ Connect(c) \/ Leave(c)
             \/ ServeList(c) \/ ServeEdit(c) \/ ServeStop(c) \/ Picked(c)
    BY DEF Next, vars, MainLoop, HandleCopy, Prune, HandleConn, ServeSlowly, ReadNothing,
           Copy, Ask, Serve, Prepare, Register, WakeSelf, ReadSnapshot, Push, Hangup
  <1> QED
    BY <1>1, <1>2, <1>3, <1>4, <1>5, <1>6, <1>7, <1>8

\* A queue of which some front was taken serves whom it served.
LEMMA ServedStep == TypeOK /\ ServedOnce /\ [Next]_vars => ServedOnce'
  <1> SUFFICES ASSUME TypeOK, ServedOnce, [Next]_vars PROVE ServedOnce'
    OBVIOUS
  <1>p. \A d \in Clients : phase[d] # "away" => phase'[d] # "away"
    BY PhaseStep
  <1>q. queue \in Seq(Events)
    BY DEF TypeOK
  <1>t. ASSUME queue # <<>>, queue' = Tail(queue), UNCHANGED worker,
               loop'.at = "read" => Head(queue).kind = "conn" /\ loop'.client = Head(queue).client
        PROVE  ServedOnce'
    <2>1. /\ Head(queue) = queue[1] /\ 1 \in DOMAIN queue
          /\ \A i \in DOMAIN queue' : i + 1 \in DOMAIN queue /\ i + 1 # 1 /\ queue'[i] = queue[i + 1]
      BY <1>t, <1>q, QueueTail
    <2>2. \A i, j \in DOMAIN queue' : i + 1 = j + 1 => i = j
      BY <1>t, <1>q
    <2> QED
      BY <1>p, <1>t, <2>1, <2>2 DEF ServedOnce
  <1>k. ASSUME UNCHANGED queue, loop'.at # "read" \/ UNCHANGED loop,
               \A d \in Clients : worker'[d] = worker[d]
                 \/ worker[d] # "none" \/ (loop.at = "read" /\ d = loop.client /\ loop'.at # "read")
        PROVE  ServedOnce'
    BY <1>p, <1>k DEF ServedOnce
  <1>u. ASSUME NEW e \in Events, queue' = Append(queue, e), e.kind # "conn", UNCHANGED worker,
               loop'.at # "read" \/ UNCHANGED loop
        PROVE  ServedOnce'
    BY <1>p, <1>q, <1>u, QueueAppend DEF ServedOnce
  <1>1. CASE UNCHANGED vars
    BY <1>1, <1>k DEF vars
  <1>2. CASE HandleCopy \/ HandleConn \/ HandleShutdown
    <2>1. /\ queue # <<>> /\ queue' = Tail(queue) /\ UNCHANGED worker
          /\ loop'.at = "read" => Head(queue).kind = "conn" /\ loop'.client = Head(queue).client
      BY <1>2 DEF HandleCopy, HandleConn, HandleShutdown, Take, Goto
    <2> QED
      BY <2>1, <1>t
  <1>3. CASE Prune \/ Notify
    BY <1>3, <1>k DEF Prune, Notify, AfterNotify, Goto
  <1>4. ASSUME NEW c \in Clients,
               ServeList(c) \/ ServeEdit(c) \/ ServeSlowly(c) \/ ReadNothing(c)
        PROVE  ServedOnce'
    BY <1>4, <1>k
       DEF ServeList, ServeEdit, ServeSlowly, ReadNothing, Read, Goto, Work, TypeOK
  <1>5. ASSUME NEW c \in Clients, ServeStop(c)
        PROVE  ServedOnce'
    <2>1. Event("shutdown", None) \in Events /\ Event("shutdown", None).kind # "conn"
      BY DEF Events, Event
    <2> QED
      BY <1>5, <2>1, <1>u DEF ServeStop, Goto
  <1>6. CASE Copy
    <2>1. Event("copy", None) \in Events /\ Event("copy", None).kind # "conn"
      BY DEF Events, Event
    <2> QED
      BY <1>6, <2>1, <1>u DEF Copy
  <1>7. ASSUME NEW c \in Clients, Connect(c)
        PROVE  ServedOnce'
    <2>0. Event("conn", c) \in Events /\ Event("conn", c).client = c /\ Event("conn", c).kind = "conn"
      BY DEF Events, Event
    <2>1. /\ queue' = Append(queue, Event("conn", c)) /\ phase[c] = "away" /\ phase'[c] # "away"
          /\ UNCHANGED <<loop, worker>>
      BY <1>7 DEF Connect, TypeOK
    <2>2. \A i \in DOMAIN queue' :
            \/ i \in DOMAIN queue /\ queue'[i] = queue[i]
            \/ i = Len(queue) + 1 /\ i \notin DOMAIN queue /\ queue'[i] = Event("conn", c)
      BY <1>q, <2>0, <2>1, QueueAppend
    <2>3. worker[c] = "none"
      BY <1>7 DEF Connect, ServedOnce
    <2> QED
      BY <1>p, <2>0, <2>1, <2>2, <2>3 DEF ServedOnce
  <1>8. ASSUME NEW c \in Clients, Leave(c) \/ \E r \in Requests : Ask(c, r)
        PROVE  ServedOnce'
    BY <1>8, <1>k DEF Ask, Leave
  <1>9. ASSUME NEW c \in Clients, Picked(c) \/ Serve(c)
        PROVE  ServedOnce'
    BY <1>9, <1>k DEF Picked, Serve, Prepare, Register, WakeSelf, ReadSnapshot, Push, Hangup,
                      Work, TypeOK
  <1> QED
    BY <1>1, <1>2, <1>3, <1>4, <1>5, <1>6, <1>7, <1>8, <1>9 DEF Next, MainLoop

-----------------------------------------------------------------------------
(* No wake-up is lost.                                                     *)

\* The threads of a client that is read by the loop, or that shows a picker,
\* have no entry in the registry; a subscription leaves it with its client.
LEMMA RegistryStep == Inv /\ [Next]_vars => RegistryIsOfSubscribers'
  <1> SUFFICES ASSUME Inv, [Next]_vars PROVE RegistryIsOfSubscribers'
    OBVIOUS
  <1> USE DEF Inv
  <1>p. \A d \in Clients : phase[d] = "gone" => phase'[d] = "gone"
    BY PhaseStep
  <1>r. registry \subseteq Clients
    BY DEF TypeOK
  <1>k. ASSUME registry' \subseteq registry, \A d \in registry : worker'[d] = worker[d]
        PROVE  RegistryIsOfSubscribers'
    BY <1>k, <1>p, <1>r DEF RegistryIsOfSubscribers
  <1>1. CASE UNCHANGED vars
    BY <1>1, <1>k DEF vars
  <1>2. CASE HandleCopy \/ Prune \/ HandleConn \/ HandleShutdown \/ Copy
    BY <1>2, <1>k DEF HandleCopy, Prune, HandleConn, HandleShutdown, Copy, subscription
  <1>3. CASE Notify
    BY <1>3, <1>k DEF Notify, Live
  <1>4. ASSUME NEW c \in Clients,
               \/ ServeList(c) \/ ServeEdit(c) \/ ServeStop(c) \/ ReadNothing(c)
               \/ Connect(c) \/ Leave(c) \/ \E r \in Requests : Ask(c, r)
        PROVE  RegistryIsOfSubscribers'
    BY <1>4, <1>k DEF ServeList, ServeEdit, ServeStop, ReadNothing, Connect, Leave, Ask,
                      subscription
  <1>5. ASSUME NEW c \in Clients, ServeSlowly(c) \/ Picked(c)
        PROVE  RegistryIsOfSubscribers'
    <2>1. c \notin registry
      BY <1>5 DEF ServeSlowly, Picked, Read, ServedOnce, RegistryIsOfSubscribers
    <2> QED
      BY <1>5, <1>k, <2>1 DEF ServeSlowly, Picked, Work, subscription, TypeOK
  <1>6. ASSUME NEW c \in Clients, Serve(c)
        PROVE  RegistryIsOfSubscribers'
    <2>1. registry' \subseteq registry \cup {c}
      BY <1>6 DEF Serve, Prepare, Register, WakeSelf, ReadSnapshot, Push, Hangup
    <2>2. worker'[c] \in {"wake", "recv", "push"} \/ (worker'[c] = "over" /\ phase'[c] = "gone")
      BY <1>6 DEF Serve, Prepare, Register, WakeSelf, ReadSnapshot, Push, Hangup, Work, TypeOK
    <2>3. \A d \in Clients \ {c} : worker'[d] = worker[d]
      BY <1>6 DEF Serve, Prepare, Register, WakeSelf, ReadSnapshot, Push, Hangup, Work, TypeOK
    <2> QED
      BY <1>p, <1>r, <2>1, <2>2, <2>3 DEF RegistryIsOfSubscribers
  <1> QED
    BY <1>1, <1>2, <1>3, <1>4, <1>5, <1>6 DEF Next, MainLoop

\* A thread that runs a picker was started for a `show`.
LEMMA PickersStep == Inv /\ [Next]_vars => PickersShow'
  <1> SUFFICES ASSUME Inv, [Next]_vars, NEW d \in Clients, worker'[d] = "picking"
               PROVE  line'[d] = "show"
    BY DEF PickersShow
  <1> USE DEF Inv, TypeOK
  <1>1. line[d] = "show" => line'[d] = "show"
    BY ClientAssumption
       DEF Next, vars, MainLoop, HandleCopy, Prune, HandleConn, Notify, HandleShutdown,
           ServeList, ServeEdit, ServeStop, ServeSlowly, ReadNothing, Copy, Connect, Leave,
           Ask, Picked, Serve, Prepare, Register, WakeSelf, ReadSnapshot, Push, Hangup,
           Requests
  <1>2. CASE worker[d] = "picking"
    BY <1>1, <1>2 DEF PickersShow
  <1>3. CASE worker[d] # "picking"
    <2>1. ServeSlowly(d)
      BY <1>3 DEF Next, vars, MainLoop, HandleCopy, Prune, HandleConn, Notify, HandleShutdown,
           ServeList, ServeEdit, ServeStop, ServeSlowly, ReadNothing, Copy, Connect, Leave,
           Ask, Picked, Serve, Prepare, Register, WakeSelf, ReadSnapshot, Push, Hangup, Work
    <2> QED
      BY <1>1, <1>3, <2>1 DEF ServeSlowly, Work
  <1> QED
    BY <1>2, <1>3

Informed(c) ==
  Subscribed(c) /\ Latest(c) < version =>
    signals[c] > 0 \/ worker[c] = "wake" \/ loop.at \in {"prune", "notify"}

\* Whoever is behind has a wake-up coming, after any step that is not the
\* edit of a picker.
LEMMA WakeStep ==
  ASSUME ~PickerEdits, IInv, [Next]_vars
  PROVE  NoLostWakeup'
  <1> USE DEF IInv, Inv
  <1>a. Inv'
    BY TypeStep, ServedStep, RegistryStep, PickersStep
  <1> SUFFICES ASSUME Up', NEW d \in Clients PROVE Informed(d)'
    BY DEF NoLostWakeup, Informed
  <1>u. Up /\ Informed(d) /\ d \in Clients
    BY DEF NoLostWakeup, Informed, Up, Next, vars, MainLoop, HandleCopy, Prune, HandleConn,
           Notify, HandleShutdown, ServeList, ServeEdit, ServeStop, ServeSlowly, ReadNothing,
           Read, Take, Copy, Connect, Leave, Ask, Picked, Serve, Prepare, Register, WakeSelf,
           ReadSnapshot, Push, Hangup
  <1>s. Subscribed(d)' => phase[d] = "connected" \/ d \notin registry
    <2>1. Subscribed(d)' => phase[d] = "connected" \/ Connect(d)
      BY PhaseStep DEF Subscribed
    <2>2. Connect(d) => d \notin registry
      BY DEF Connect, ServedOnce, RegistryIsOfSubscribers
    <2> QED
      BY <2>1, <2>2
  <1>n. /\ signals[d] \in Nat /\ read[d] \in Nat /\ shown[d] \in Nat /\ version \in Nat
        /\ signals'[d] \in Nat /\ read'[d] \in Nat /\ shown'[d] \in Nat /\ version' \in Nat
    BY <1>a DEF TypeOK
  <1>k. ASSUME registry' \subseteq registry, signals'[d] = signals[d], worker'[d] = worker[d],
               read'[d] = read[d], shown'[d] = shown[d],
               \/ loop'.at \in {"prune", "notify"}
               \/ version' = version /\ loop.at \notin {"prune", "notify"}
        PROVE  Informed(d)'
    BY <1>k, <1>u, <1>s DEF Informed, Subscribed, Latest
  <1>l. ASSUME registry' \subseteq registry, signals'[d] = signals[d], worker'[d] = worker[d],
               read'[d] = read[d], shown'[d] = shown[d], UNCHANGED <<version, loop>>
        PROVE  Informed(d)'
    BY <1>l, <1>u, <1>s DEF Informed, Subscribed, Latest
  <1>1. CASE UNCHANGED vars
    BY <1>1, <1>l DEF vars
  <1>2. CASE HandleCopy \/ Prune \/ HandleConn
    BY <1>2, <1>k DEF HandleCopy, Prune, HandleConn, Take, Goto, subscription
  <1>3. CASE HandleShutdown
    BY <1>3 DEF HandleShutdown, Goto, Up
  <1>4. CASE Notify
    <2>1. d \in registry' => signals'[d] = signals[d] + 1
      BY <1>4 DEF Notify
    <2> QED
      BY <1>n, <2>1 DEF Informed, Subscribed
  <1>5. ASSUME NEW c \in Clients,
               ServeList(c) \/ ServeEdit(c) \/ ServeStop(c) \/ ReadNothing(c)
        PROVE  Informed(d)'
    BY <1>5, <1>k DEF ServeList, ServeEdit, ServeStop, ReadNothing, Read, Goto, subscription
  <1>6. ASSUME NEW c \in Clients, ServeSlowly(c)
        PROVE  Informed(d)'
    <2>1. c \notin registry /\ registry' = registry
      BY <1>6 DEF ServeSlowly, Read, ServedOnce, RegistryIsOfSubscribers, subscription
    <2>2. CASE c = d
      BY <2>1, <2>2 DEF Informed, Subscribed
    <2>3. CASE c # d
      BY <1>6, <1>k, <2>1, <2>3 DEF ServeSlowly, Read, Goto, Work, subscription, TypeOK
    <2> QED
      BY <2>2, <2>3
  <1>7. ASSUME NEW c \in Clients, Picked(c)
        PROVE  Informed(d)'
    <2>1. c \notin registry /\ registry' = registry
      BY <1>7 DEF Picked, RegistryIsOfSubscribers, subscription
    <2>2. CASE c = d
      BY <2>1, <2>2 DEF Informed, Subscribed
    <2>3. CASE c # d
      BY <1>7, <1>l, <2>1, <2>3 DEF Picked, Work, subscription, TypeOK
    <2> QED
      BY <2>2, <2>3
  <1>8. CASE \/ Copy
             \/ \E c \in Clients :
                  Connect(c) \/ Leave(c) \/ \E r \in Requests : Ask(c, r)
    BY <1>8, <1>l DEF Copy, Connect, Leave, Ask, subscription
  <1>9. ASSUME NEW c \in Clients, Serve(c)
        PROVE  Informed(d)'
    <2>1. CASE c # d
      BY <1>9, <1>l, <1>u, <1>s, <2>1
         DEF Serve, Prepare, Register, WakeSelf, ReadSnapshot, Push, Hangup, Work, TypeOK,
             Informed, Subscribed, Latest
    <2>2. CASE c = d
      <3>1. CASE Register(d)
        BY <3>1 DEF Register, Work, Informed, TypeOK
      <3>2. CASE WakeSelf(d)
        BY <1>n, <3>2 DEF WakeSelf, Informed, TypeOK
      <3>3. CASE ReadSnapshot(d)
        BY <1>n, <3>3 DEF ReadSnapshot, Work, Informed, Latest, TypeOK
      <3>4. CASE Push(d)
        BY <1>u, <1>s, <3>4 DEF Push, Work, Informed, Subscribed, Latest, TypeOK
      <3>5. CASE Hangup(d)
        BY <3>5 DEF Hangup, Informed, Subscribed
      <3> QED
        BY <1>9, <2>2, <3>1, <3>2, <3>3, <3>4, <3>5 DEF Serve, Prepare
    <2> QED
      BY <2>1, <2>2
  <1> QED
    BY <1>1, <1>2, <1>3, <1>4, <1>5, <1>6, <1>7, <1>8, <1>9 DEF Next, MainLoop

-----------------------------------------------------------------------------
\* The daemon's queues, threads and channels keep their types.
THEOREM DispatchTypeCorrect == Spec => []TypeOK
  BY InitIInv, TypeStep, PTL DEF Spec, IInv, Inv

\* Every step keeps the inductive invariant.
LEMMA StepIInv ==
  ASSUME ~PickerEdits
  PROVE  IInv /\ [Next]_vars => IInv'
  BY TypeStep, ServedStep, RegistryStep, PickersStep, WakeStep DEF IInv, Inv

\* While every mutation is announced by the main loop, the inductive
\* invariant holds for ever.
THEOREM DispatchInvariance ==
  ASSUME ~PickerEdits
  PROVE  Spec => []IInv
  BY InitIInv, StepIInv, PTL DEF Spec

\* A subscriber that does not have the present history is about to be sent
\* it: between mutations, notifications, registrations and slow writes no
\* interleaving loses the last wake-up.
THEOREM WakeupsAreNotLost ==
  ASSUME ~PickerEdits
  PROVE  Spec => []NoLostWakeup
  <1>1. IInv => NoLostWakeup
    BY DEF IInv
  <1> QED
    BY <1>1, DispatchInvariance, PTL

\* When the client of an edit has its answer, every subscriber has the result
\* or a signal waiting.
THEOREM EditsAreAnnounced ==
  ASSUME ~PickerEdits
  PROVE  Spec => AnsweredEditsAreAnnounced
  <1> DEFINE Announced ==
        \A e, c \in Clients :
          /\ line[e] = "edit" /\ phase[e] = "connected" /\ phase'[e] = "answered"
          /\ (Subscribed(c) /\ Latest(c) < version)'
          => (signals[c] > 0 \/ worker[c] = "wake")'
  <1>1. ASSUME IInv, [Next]_vars PROVE Announced
    <2> SUFFICES ASSUME NEW e \in Clients, NEW c \in Clients,
                        line[e] = "edit", phase[e] = "connected", phase'[e] = "answered",
                        (Subscribed(c) /\ Latest(c) < version)'
                 PROVE  (signals[c] > 0 \/ worker[c] = "wake")'
      OBVIOUS
    <2> USE <1>1 DEF IInv, Inv
    <2>1. loop'.at = "recv"
      <3>1. \/ Notify
            \/ \E q \in Clients : /\ ServeList(q) \/ ServeEdit(q) \/ ServeStop(q) \/ Picked(q)
                                  /\ Answer(q)
        BY DEF Next, vars, MainLoop, HandleCopy, Prune, HandleConn, Notify, HandleShutdown,
           ServeList, ServeEdit, ServeStop, ServeSlowly, ReadNothing, Copy, Connect, Leave,
           Ask, Picked, Serve, Prepare, Register, WakeSelf, ReadSnapshot, Push, Hangup, TypeOK
      <3>2. \A q \in Clients : Answer(q) => q = e
        BY DEF Answer, TypeOK
      <3>3. ~ServeList(e) /\ ~ServeStop(e) /\ ~Picked(e)
        BY DEF ServeList, ServeStop, Picked, Read, PickersShow
      <3>4. Notify \/ (ServeEdit(e) /\ Answer(e))
        BY <3>1, <3>2, <3>3
      <3>5. ServeEdit(e) => loop'.at = "recv"
        BY DEF ServeEdit, Goto
      <3> QED
        BY <3>4, <3>5 DEF Notify, AfterNotify, Goto
    <2>2. NoLostWakeup'
      BY StepIInv
    <2> QED
      BY <2>1, <2>2 DEF NoLostWakeup, Up
  <1>2. IInv /\ [Next]_vars => [Announced]_vars
    BY <1>1
  <1> QED
    BY <1>2, DispatchInvariance, PTL DEF Spec, AnsweredEditsAreAnnounced
=============================================================================
