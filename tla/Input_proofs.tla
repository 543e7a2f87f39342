---------------------------- MODULE Input_proofs ----------------------------
(***************************************************************************)
(* Proofs about Input for every set of clients, keys and devices and every *)
(* limit of ports and pipes: no wakeup is lost between the thread that     *)
(* queues events and the client that drains the pipe and then the queue,   *)
(* and the events agree with what is down on both sides of the queue.      *)
(***************************************************************************)
EXTENDS Input, SequenceTheorems, TLAPS

\* What the proof needs of the shape of a client's state.
Shape ==
  /\ DOMAIN conn = Clients /\ DOMAIN thread = Clients /\ DOMAIN queue = Clients
  /\ DOMAIN loop = Clients /\ pipe \in [Clients -> Nat]

\* A process that has not made its context has nothing queued and no thread.
NotYet == \A c \in Clients : conn[c] = "none" => queue[c] = <<>> /\ thread[c] = "ended"

WakeInv == Shape /\ NotYet /\ QueueReadable

\* The part of the state the invariant is about.
wakevars == <<conn, thread, queue, pipe, loop>>

LEMMA InitWake == Init => WakeInv
BY DEF Init, WakeInv, Shape, NotYet, QueueReadable, Open

LEMMA KeepsWake == WakeInv /\ UNCHANGED wakevars => WakeInv'
BY DEF WakeInv, Shape, NotYet, QueueReadable, Open, wakevars

LEMMA CreateWake ==
  ASSUME WakeInv, NEW c \in Clients, libinput_udev_create_context(c)
  PROVE  WakeInv'
<1>1. /\ conn[c] = "none" /\ UNCHANGED <<queue, pipe, loop>>
      /\ \/ /\ conn' = [conn EXCEPT ![c] = "open"]
            /\ thread' = [thread EXCEPT ![c] = "receive"]
         \/ conn' = [conn EXCEPT ![c] = "stub"] /\ UNCHANGED thread
  BY DEF libinput_udev_create_context
<1>2. queue[c] = <<>>
  BY <1>1 DEF WakeInv, NotYet
<1>3. Shape' /\ NotYet'
  BY <1>1, <1>2 DEF WakeInv, Shape, NotYet
<1>4. QueueReadable'
  BY <1>1, <1>2 DEF WakeInv, Shape, QueueReadable, Open
<1> QED
  BY <1>3, <1>4 DEF WakeInv

LEMMA UnrefWake ==
  ASSUME WakeInv, NEW c \in Clients, libinput_unref(c)
  PROVE  WakeInv'
<1>1. /\ conn' = [conn EXCEPT ![c] = "unref"] /\ pipe' = [pipe EXCEPT ![c] = 0]
      /\ UNCHANGED <<thread, queue, loop>>
  BY DEF libinput_unref
<1>2. Shape' /\ NotYet'
  BY <1>1 DEF WakeInv, Shape, NotYet
<1>3. QueueReadable'
  BY <1>1 DEF WakeInv, Shape, QueueReadable, Open
<1> QED
  BY <1>2, <1>3 DEF WakeInv

LEMMA ExitsWake ==
  ASSUME WakeInv, NEW c \in Clients, Exits(c)
  PROVE  WakeInv'
<1>1. /\ conn' = [conn EXCEPT ![c] = "dead"] /\ thread' = [thread EXCEPT ![c] = "ended"]
      /\ queue' = [queue EXCEPT ![c] = <<>>] /\ pipe' = [pipe EXCEPT ![c] = 0]
      /\ loop' = [loop EXCEPT ![c] = "poll"]
  BY DEF Exits
<1>2. Shape' /\ NotYet'
  BY <1>1 DEF WakeInv, Shape, NotYet
<1>3. QueueReadable'
  BY <1>1 DEF WakeInv, Shape, QueueReadable, Open
<1> QED
  BY <1>2, <1>3 DEF WakeInv

\* A queued event is followed by a byte; a dropped message leaves the queue, whose
\* byte is in the pipe, since the thread is not about to write one.
LEMMA ReceiveWake ==
  ASSUME WakeInv, NEW c \in Clients, recv_thread(c)
  PROVE  WakeInv'
<1> DEFINE m == Head(port[c])
<1>1. /\ thread[c] = "receive" /\ UNCHANGED <<conn, pipe, loop>>
      /\ queue' = [queue EXCEPT ![c] = IF Dropped(c, m) THEN queue[c] ELSE Queued(c, m)]
      /\ thread' = [thread EXCEPT ![c] = Then(c, m)]
  BY DEF recv_thread
<1> HIDE DEF m
<1>2. conn[c] # "none"
  BY <1>1 DEF WakeInv, NotYet
<1>3. Shape' /\ NotYet'
  BY <1>1, <1>2 DEF WakeInv, Shape, NotYet
<1>4. CASE Dropped(c, m)
  <2>1. \A d \in Clients : queue'[d] = queue[d]
    BY <1>1, <1>4 DEF WakeInv, Shape
  <2>2. QueueReadable'
    BY <1>1, <2>1 DEF WakeInv, Shape, QueueReadable, Open
  <2> QED
    BY <1>3, <2>2 DEF WakeInv
<1>5. CASE ~Dropped(c, m)
  <2>1. thread' = [thread EXCEPT ![c] = "write"]
    BY <1>1, <1>5 DEF Then
  <2>2. \A d \in Clients \ {c} : queue'[d] = queue[d]
    BY <1>1 DEF WakeInv, Shape
  <2>3. QueueReadable'
    BY <1>1, <2>1, <2>2 DEF WakeInv, Shape, QueueReadable, Open
  <2> QED
    BY <1>3, <2>3 DEF WakeInv
<1> QED
  BY <1>4, <1>5

LEMMA WriteWake ==
  ASSUME WakeInv, NEW c \in Clients, WritesPipe(c)
  PROVE  WakeInv'
<1>1. /\ thread[c] = "write" /\ UNCHANGED <<conn, queue, loop>>
      /\ pipe' = [pipe EXCEPT ![c] = IF Open(c) THEN pipe[c] + 1 ELSE pipe[c]]
      /\ thread' = [thread EXCEPT ![c] = Looping(c)]
  BY DEF WritesPipe
<1>2. Shape' /\ NotYet'
  BY <1>1 DEF WakeInv, Shape, NotYet
<1>3. QueueReadable'
  BY <1>1 DEF WakeInv, Shape, QueueReadable, Open
<1> QED
  BY <1>2, <1>3 DEF WakeInv

LEMMA DispatchWake ==
  ASSUME WakeInv, NEW c \in Clients, libinput_dispatch(c)
  PROVE  WakeInv'
<1>1. /\ loop' = [loop EXCEPT ![c] = "get"] /\ pipe' = [pipe EXCEPT ![c] = 0]
      /\ UNCHANGED <<conn, thread, queue>>
  BY DEF libinput_dispatch
<1>2. Shape' /\ NotYet'
  BY <1>1 DEF WakeInv, Shape, NotYet
<1>3. QueueReadable'
  BY <1>1 DEF WakeInv, Shape, QueueReadable, Open
<1> QED
  BY <1>2, <1>3 DEF WakeInv

\* The client goes back to poll only when it has found the queue empty.
LEMMA GetEventWake ==
  ASSUME WakeInv, NEW c \in Clients, libinput_get_event(c)
  PROVE  WakeInv'
<1>1. /\ loop[c] = "get" /\ Open(c) /\ UNCHANGED <<conn, thread, pipe>>
      /\ \/ queue[c] = <<>> /\ loop' = [loop EXCEPT ![c] = "poll"] /\ UNCHANGED queue
         \/ queue' = [queue EXCEPT ![c] = Tail(queue[c])] /\ UNCHANGED loop
  BY DEF libinput_get_event
<1>2. Shape' /\ NotYet'
  BY <1>1 DEF WakeInv, Shape, NotYet, Open
<1>3. QueueReadable'
  BY <1>1 DEF WakeInv, Shape, QueueReadable, Open
<1> QED
  BY <1>2, <1>3 DEF WakeInv

\* With events in the queue and the client about to poll, there is a byte in the pipe
\* or one is about to be written (libinput.c: recv_thread, libinput_dispatch and
\* libinput_get_event).
THEOREM QueueReadableInvariant == Spec => []QueueReadable
<1>1. WakeInv /\ [Next]_vars => WakeInv'
  <2> SUFFICES ASSUME WakeInv, [Next]_vars PROVE WakeInv'
    OBVIOUS
  <2>1. CASE Server \/ HidSystem \/ flush_motion \/ handle_signal
    BY <2>1, KeepsWake
    DEF Server, HidSystem, flush_motion, handle_signal, mach_server_thread, Greets, Ends,
        iohid_event_callback, Hears, mt_contact_frame, clientvars, wakevars
  <2>2. ASSUME NEW s \in Senders, Locks(s) \/ SendsNext(s) PROVE WakeInv'
    BY <2>2, KeepsWake DEF Locks, SendsNext, clientvars, wakevars
  <2>3. ASSUME NEW c \in Clients,
               \/ libinput_udev_create_context(c) \/ libinput_unref(c) \/ Exits(c)
               \/ recv_thread(c) \/ WritesPipe(c) \/ libinput_dispatch(c)
               \/ libinput_get_event(c)
        PROVE  WakeInv'
    BY <2>3, CreateWake, UnrefWake, ExitsWake, ReceiveWake, WriteWake, DispatchWake,
       GetEventWake
  <2>4. CASE UNCHANGED vars
    BY <2>4, KeepsWake DEF vars, wakevars
  <2> QED
    BY <2>1, <2>2, <2>3, <2>4 DEF Next
<1>2. WakeInv => QueueReadable
  BY DEF WakeInv
<1> QED
  BY <1>1, <1>2, InitWake, PTL DEF Spec
-----------------------------------------------------------------------------
(* What is sent *)

Messages == {DeviceAdded, DeviceRemoved, Pointer}
            \cup {Switch(b, down) : b \in Keys \cup Buttons, down \in BOOLEAN}

Sends == [to : Clients \cup {"all"}, msg : Messages]

\* The thread that has the lock is at a message to all.
Broadcasting == client_lock \in Senders => todo[client_lock] # <<>> /\ Head(todo[client_lock]).to = "all"

SentTypes ==
  /\ inbox \in Seq(Clients) /\ todo \in [Senders -> Seq(Sends)]
  /\ port \in [Clients -> Seq(Messages)] /\ queue \in [Clients -> Seq(Messages)]
  /\ DOMAIN pressed = Clients /\ DOMAIN held = Clients
  /\ client_lock \in Senders \cup {NoOwner} /\ Broadcasting

sentvars == <<inbox, todo, client_lock, port, queue, pressed, held>>

LEMMA SentInit == Init => SentTypes
BY InputAssumption DEF Init, SentTypes, Broadcasting, InputAssumption, Senders

LEMMA KeepsSent == SentTypes /\ UNCHANGED sentvars => SentTypes'
BY DEF SentTypes, Broadcasting, sentvars

LEMMA ToAllType == \A m \in Messages : ToAll(m) \in Sends /\ ToAll(m).to = "all"
BY DEF ToAll, Sends

LEMMA HeadType ==
  ASSUME NEW list \in Seq(Sends), list # <<>>
  PROVE  Head(list).msg \in Messages /\ Tail(list) \in Seq(Sends)
<1>1. Head(list) \in Sends /\ Tail(list) \in Seq(Sends)
  OBVIOUS
<1> QED
  BY <1>1 DEF Sends

LEMMA CopiesType ==
  ASSUME NEW n \in Nat, NEW m \in Messages
  PROVE  Copies(n, ToAll(m)) \in Seq(Sends)
BY ToAllType DEF Copies

\* A thread's list loses its head, which it has sent, or is a new one; the lock stays with
\* whoever has it, unless that was this thread.
LEMMA NewTodo ==
  ASSUME SentTypes, NEW s \in Senders, NEW list \in Seq(Sends),
         todo' = [todo EXCEPT ![s] = list],
         client_lock' = client_lock \/ client_lock' = NoOwner,
         client_lock' # s,
         inbox' \in Seq(Clients), port' \in [Clients -> Seq(Messages)],
         UNCHANGED <<queue, pressed, held>>
  PROVE  SentTypes'
<1>1. todo' \in [Senders -> Seq(Sends)]
  BY DEF SentTypes
<1>2. client_lock' \in Senders \cup {NoOwner} /\ NoOwner \notin Senders
  BY InputAssumption DEF SentTypes, InputAssumption, Senders
<1>3. Broadcasting'
  <2> SUFFICES ASSUME client_lock' \in Senders
               PROVE  todo'[client_lock'] # <<>> /\ Head(todo'[client_lock']).to = "all"
    BY DEF Broadcasting
  <2>1. client_lock' = client_lock /\ client_lock # s
    BY <1>2
  <2>2. todo'[client_lock] = todo[client_lock]
    BY <2>1 DEF SentTypes
  <2> QED
    BY <2>1, <2>2 DEF SentTypes, Broadcasting
<1> QED
  BY <1>1, <1>2, <1>3 DEF SentTypes

LEMMA LocksSent == ASSUME SentTypes, NEW s \in Senders, Locks(s) PROVE SentTypes'
<1>1. /\ todo[s] # <<>> /\ Head(todo[s]).to = "all" /\ client_lock = NoOwner
      /\ UNCHANGED <<inbox, port, queue, pressed, held>>
  BY DEF Locks, clientvars
<1>2. CASE g_clients = <<>>
  <2>1. todo' = [todo EXCEPT ![s] = Tail(todo[s])] /\ client_lock' = client_lock
    BY <1>2 DEF Locks
  <2>2. Tail(todo[s]) \in Seq(Sends) /\ NoOwner # s
    BY <1>1, InputAssumption DEF SentTypes, InputAssumption, Senders
  <2>3. inbox' \in Seq(Clients) /\ port' \in [Clients -> Seq(Messages)]
    BY <1>1 DEF SentTypes
  <2> QED
    BY <1>1, <2>1, <2>2, <2>3, NewTodo
<1>3. CASE g_clients # <<>>
  <2>1. client_lock' = s /\ todo' = todo
    BY <1>3 DEF Locks
  <2> QED
    BY <1>1, <2>1 DEF SentTypes, Broadcasting
<1> QED
  BY <1>2, <1>3

LEMMA SendToType ==
  ASSUME SentTypes, NEW c, NEW m \in Messages, SendTo(c, m)
  PROVE  port' \in [Clients -> Seq(Messages)]
<1>1. CASE c \in Clients
  BY <1>1 DEF SentTypes, SendTo
<1>2. CASE c \notin Clients
  BY <1>2 DEF SentTypes, SendTo
<1> QED
  BY <1>1, <1>2

LEMMA SendsNextSent == ASSUME SentTypes, NEW s \in Senders, SendsNext(s) PROVE SentTypes'
<1>1. /\ client_lock = s /\ SendTo(g_clients[next], Head(todo[s]).msg)
      /\ \/ UNCHANGED <<client_lock, todo>>
         \/ client_lock' = NoOwner /\ todo' = [todo EXCEPT ![s] = Tail(todo[s])]
      /\ UNCHANGED <<inbox, queue, pressed, held>>
  BY DEF SendsNext
<1>2. todo[s] \in Seq(Sends) /\ todo[s] # <<>>
  BY <1>1 DEF SentTypes, Broadcasting
<1>3. Head(todo[s]).msg \in Messages /\ Tail(todo[s]) \in Seq(Sends)
  BY <1>2, HeadType
<1>4. port' \in [Clients -> Seq(Messages)] /\ inbox' \in Seq(Clients)
  BY <1>1, <1>3, SendToType DEF SentTypes
<1>5. CASE UNCHANGED <<client_lock, todo>>
  BY <1>1, <1>4, <1>5 DEF SentTypes, Broadcasting
<1>6. CASE client_lock' = NoOwner /\ todo' = [todo EXCEPT ![s] = Tail(todo[s])]
  <2>1. NoOwner # s
    BY InputAssumption DEF InputAssumption, Senders
  <2> QED
    BY <1>1, <1>3, <1>4, <1>6, <2>1, NewTodo
<1> QED
  BY <1>1, <1>5, <1>6

LEMMA SubscribeSent == SentTypes /\ mach_server_thread => SentTypes'
<1> SUFFICES ASSUME SentTypes, mach_server_thread PROVE SentTypes'
  OBVIOUS
<1> DEFINE list == Append(Copies(NumDevices, ToAll(DeviceAdded)), [to |-> Head(inbox), msg |-> Pointer])
<1>1. /\ inbox # <<>> /\ inbox' = Tail(inbox) /\ client_lock = NoOwner
      /\ todo' = [todo EXCEPT !["server"] = list] /\ client_lock' = client_lock
      /\ UNCHANGED <<port, queue, pressed, held>>
  BY DEF mach_server_thread, clientvars
<1>2. Head(inbox) \in Clients /\ inbox' \in Seq(Clients) /\ port' \in [Clients -> Seq(Messages)]
  BY <1>1 DEF SentTypes
<1>3. list \in Seq(Sends)
  <2>1. [to |-> Head(inbox), msg |-> Pointer] \in Sends
    BY <1>2 DEF Sends, Messages
  <2>2. NumDevices \in Nat /\ DeviceAdded \in Messages
    BY InputAssumption DEF InputAssumption, Messages
  <2>3. Copies(NumDevices, ToAll(DeviceAdded)) \in Seq(Sends)
    BY <2>2, CopiesType
  <2> QED
    BY <2>1, <2>3
<1>4. client_lock' # "server" /\ "server" \in Senders
  BY <1>1, InputAssumption DEF InputAssumption, Senders
<1> HIDE DEF list
<1> QED
  BY <1>1, <1>2, <1>3, <1>4, NewTodo

LEMMA GreetsSent == ASSUME SentTypes, NEW c \in Clients, Greets(c) PROVE SentTypes'
<1>1. /\ todo["server"] # <<>> /\ Head(todo["server"]).to = c
      /\ SendTo(c, Head(todo["server"]).msg)
      /\ todo' = [todo EXCEPT !["server"] = Tail(todo["server"])]
      /\ UNCHANGED <<inbox, client_lock, queue, pressed, held>>
  BY DEF Greets
<1>2. "server" \in Senders /\ todo["server"] \in Seq(Sends)
  BY DEF SentTypes, Senders
<1>3. Head(todo["server"]).msg \in Messages /\ Tail(todo["server"]) \in Seq(Sends)
  BY <1>1, <1>2, HeadType
<1>4. port' \in [Clients -> Seq(Messages)] /\ inbox' \in Seq(Clients)
  BY <1>1, <1>3, SendToType DEF SentTypes
<1>5. client_lock' # "server"
  BY <1>1, <1>2, InputAssumption DEF SentTypes, Broadcasting, InputAssumption
<1> QED
  BY <1>1, <1>2, <1>3, <1>4, <1>5, NewTodo

LEMMA SignalSent == SentTypes /\ handle_signal => SentTypes'
<1> SUFFICES ASSUME SentTypes, handle_signal PROVE SentTypes'
  OBVIOUS
<1>1. /\ todo["server"] = <<>>
      /\ todo' = [todo EXCEPT !["server"] = Copies(NumDevices, ToAll(DeviceRemoved))]
      /\ UNCHANGED <<inbox, client_lock, port, queue, pressed, held>>
  BY DEF handle_signal, clientvars
<1>2. Copies(NumDevices, ToAll(DeviceRemoved)) \in Seq(Sends)
  <2>1. NumDevices \in Nat /\ DeviceRemoved \in Messages
    BY InputAssumption DEF InputAssumption, Messages
  <2> QED
    BY <2>1, CopiesType
<1>3. client_lock' # "server" /\ "server" \in Senders
  BY <1>1 DEF SentTypes, Broadcasting, Senders
<1>4. inbox' \in Seq(Clients) /\ port' \in [Clients -> Seq(Messages)]
  BY <1>1 DEF SentTypes
<1> QED
  BY <1>1, <1>2, <1>3, <1>4, NewTodo

LEMMA EndsSent == SentTypes /\ Ends => SentTypes'
BY InputAssumption DEF Ends, SentTypes, Broadcasting, clientvars, InputAssumption, Senders

\* What the HID system's events are sent as.
LEMMA HearsSent ==
  ASSUME SentTypes, todo["hid"] = <<>>, NEW sent \in Seq(Messages),
         todo' = [todo EXCEPT !["hid"] = [i \in DOMAIN sent |-> ToAll(sent[i])]],
         UNCHANGED <<inbox, client_lock, port, queue, pressed, held>>
  PROVE  SentTypes'
<1>1. [i \in DOMAIN sent |-> ToAll(sent[i])] \in Seq(Sends)
  BY ToAllType
<1>2. client_lock' # "hid" /\ "hid" \in Senders
  BY DEF SentTypes, Broadcasting, Senders
<1>3. inbox' \in Seq(Clients) /\ port' \in [Clients -> Seq(Messages)]
  BY DEF SentTypes
<1> QED
  BY <1>1, <1>2, <1>3, NewTodo

LEMMA HidSent == SentTypes /\ iohid_event_callback => SentTypes'
<1> SUFFICES ASSUME SentTypes, iohid_event_callback PROVE SentTypes'
  OBVIOUS
<1> DEFINE Keyboard == {<<Switch(k, down)>> : k \in Keys, down \in BOOLEAN}
           Click    == {Switch(b, down) : b \in Buttons, down \in BOOLEAN}
           Children == {<<Pointer>>} \cup UNION {[1..n -> Click] : n \in 1..MaxChildren}
<1>1. /\ todo["hid"] = <<>> /\ UNCHANGED <<inbox, client_lock, port, queue, pressed, held>>
      /\ \/ \E sent \in Keyboard \cup Children :
              todo' = [todo EXCEPT !["hid"] = [i \in DOMAIN sent |-> ToAll(sent[i])]]
         \/ UNCHANGED todo
  BY DEF iohid_event_callback, Hears, clientvars
<1>2. ASSUME NEW sent \in Keyboard \cup Children PROVE sent \in Seq(Messages)
  <2>1. CASE sent \in Keyboard
    <3>1. PICK k \in Keys, down \in BOOLEAN : sent = <<Switch(k, down)>>
      BY <2>1
    <3>2. Switch(k, down) \in Messages
      BY <3>1 DEF Messages
    <3> QED
      BY <3>1, <3>2
  <2>2. CASE sent = <<Pointer>>
    BY <2>2 DEF Messages
  <2>3. CASE sent \in UNION {[1..n -> Click] : n \in 1..MaxChildren}
    <3>1. PICK n \in 1..MaxChildren : sent \in [1..n -> Click]
      BY <2>3
    <3>2. n \in Nat /\ Click \subseteq Messages
      BY DEF Messages
    <3> HIDE DEF Click
    <3> QED
      BY <3>1, <3>2
  <2> QED
    BY <1>2, <2>1, <2>2, <2>3
<1> HIDE DEF Keyboard, Children
<1>3. CASE UNCHANGED todo
  BY <1>1, <1>3, KeepsSent DEF sentvars
<1> QED
  BY <1>1, <1>2, <1>3, HearsSent

LEMMA FlushSent == SentTypes /\ flush_motion => SentTypes'
<1> SUFFICES ASSUME SentTypes, flush_motion PROVE SentTypes'
  OBVIOUS
<1>1. /\ todo["hid"] = <<>> /\ todo' = [todo EXCEPT !["hid"] = <<ToAll(Pointer)>>]
      /\ UNCHANGED <<inbox, client_lock, port, queue, pressed, held>>
  BY DEF flush_motion, clientvars
<1>2. <<Pointer>> \in Seq(Messages)
  BY DEF Messages
<1>3. <<ToAll(Pointer)>> = [i \in DOMAIN <<Pointer>> |-> ToAll(<<Pointer>>[i])]
  OBVIOUS
<1> QED
  BY <1>1, <1>2, <1>3, HearsSent
-----------------------------------------------------------------------------
(* What is down *)

\* KeysAgree of one client and one key or button.
Agree(events, noted, before, b) ==
  /\ \A i \in 1..Len(events) :
       Says(events, b, i) => ~(events[i].down <=> Down(events, before, b, i - 1))
  /\ b \in noted <=> Down(events, before, b, Len(events))

LEMMA NothingQueued ==
  ASSUME NEW noted, NEW before, NEW b
  PROVE  Agree(<<>>, noted, before, b) <=> (b \in noted <=> b \in before)
BY DEF Agree, Down

LEMMA DownStep ==
  ASSUME NEW events \in Seq(Messages), NEW before, NEW b, NEW n \in 1..Len(events)
  PROVE  Down(events, before, b, n) <=>
           IF Says(events, b, n) THEN events[n].down ELSE Down(events, before, b, n - 1)
<1>1. n \in Nat /\ n - 1 \in Nat /\ \A i : i \in 1..n <=> i \in 1..(n - 1) \/ i = n
  OBVIOUS
<1>2. \A i \in 1..(n - 1) : n \in (i + 1)..n
                            /\ \A j : j \in (i + 1)..n <=> j \in (i + 1)..(n - 1) \/ j = n
  OBVIOUS
<1>3. \A j : j \notin (n + 1)..n
  OBVIOUS
<1>4. CASE Says(events, b, n)
  <2>1. Down(events, before, b, n) => events[n].down
    <3> SUFFICES ASSUME Down(events, before, b, n) PROVE events[n].down
      OBVIOUS
    <3>1. PICK i \in 1..n : /\ Says(events, b, i) /\ events[i].down
                            /\ \A j \in (i + 1)..n : ~Says(events, b, j)
      BY <1>1, <1>4, Zenon DEF Down
    <3>2. i = n
      BY <1>1, <1>2, <1>4, <3>1, Zenon
    <3> QED
      BY <3>1, <3>2, Zenon
  <2>2. events[n].down => Down(events, before, b, n)
    BY <1>1, <1>3, <1>4, Zenon DEF Down
  <2> QED
    BY <1>4, <2>1, <2>2, Zenon
<1>5. CASE ~Says(events, b, n)
  <2>1. Down(events, before, b, n) => Down(events, before, b, n - 1)
    BY <1>1, <1>2, <1>5, Zenon DEF Down
  <2>2. Down(events, before, b, n - 1) => Down(events, before, b, n)
    BY <1>1, <1>2, <1>5, Zenon DEF Down
  <2> QED
    BY <1>5, <2>1, <2>2, Zenon
<1> QED
  BY <1>4, <1>5

\* What is down by the first events does not depend on those behind them.
LEMMA DownPrefix ==
  ASSUME NEW events \in Seq(Messages), NEW more \in Seq(Messages), NEW before, NEW b, NEW n \in Nat,
         n <= Len(events), n <= Len(more), \A i \in 1..n : more[i] = events[i]
  PROVE  Down(more, before, b, n) <=> Down(events, before, b, n)
<1>1. \A i \in 1..n : Says(more, b, i) <=> Says(events, b, i)
  BY DEF Says
<1>2. \A i \in 1..n : \A j \in (i + 1)..n : j \in 1..n
  OBVIOUS
<1> QED
  BY <1>1, <1>2, Zenon DEF Down

\* A message the thread queues changes something, and what it notes is what is down then.
LEMMA AppendAgrees ==
  ASSUME NEW events \in Seq(Messages), NEW m \in Messages, NEW noted, NEW next_noted,
         NEW before, NEW b, Agree(events, noted, before, b),
         m.type = "SWITCH" => ~(m.down <=> m.key \in noted),
         b \in next_noted <=> IF m.type = "SWITCH" /\ m.key = b THEN m.down ELSE b \in noted
  PROVE  Agree(Append(events, m), next_noted, before, b)
<1> DEFINE more == Append(events, m)
           last == Len(events) + 1
<1>1. /\ more \in Seq(Messages) /\ Len(more) = last /\ more[last] = m
      /\ \A i \in 1..Len(events) : more[i] = events[i]
      /\ last \in 1..Len(more) /\ last - 1 = Len(events) /\ Len(events) \in Nat
  OBVIOUS
<1>2. \A i : i \in 1..last <=> i \in 1..Len(events) \/ i = last
  OBVIOUS
<1> HIDE DEF more, last
<1>3. \A n \in 0..Len(events) : Down(more, before, b, n) <=> Down(events, before, b, n)
  <2> SUFFICES ASSUME NEW n \in 0..Len(events)
               PROVE  Down(more, before, b, n) <=> Down(events, before, b, n)
    OBVIOUS
  <2>1. n \in Nat /\ n <= Len(events) /\ n <= Len(more) /\ \A i \in 1..n : more[i] = events[i]
    BY <1>1 DEF last
  <2> QED
    BY <1>1, <2>1, DownPrefix
<1>4. b \in noted <=> Down(more, before, b, last - 1)
  <2>1. Len(events) \in 0..Len(events)
    BY <1>1
  <2> QED
    BY <1>1, <1>3, <2>1, Zenon DEF Agree
<1>5. Says(more, b, last) <=> m.type = "SWITCH" /\ m.key = b
  BY <1>1 DEF Says
<1>6. b \in next_noted <=> Down(more, before, b, last)
  <2>1. Down(more, before, b, last) <=>
          IF Says(more, b, last) THEN more[last].down ELSE Down(more, before, b, last - 1)
    BY <1>1, DownStep
  <2> QED
    BY <1>1, <1>4, <1>5, <2>1, Zenon
<1>7. ASSUME NEW i \in 1..last, Says(more, b, i)
      PROVE  ~(more[i].down <=> Down(more, before, b, i - 1))
  <2>1. CASE i = last
    BY <1>1, <1>4, <1>5, <1>7, <2>1, Zenon
  <2>2. CASE i \in 1..Len(events)
    <3>1. i - 1 \in 0..Len(events)
      BY <1>1, <2>2
    <3>2. more[i] = events[i] /\ (Says(more, b, i) <=> Says(events, b, i))
      BY <1>1, <2>2 DEF Says
    <3> QED
      BY <1>3, <1>7, <2>2, <3>1, <3>2, Zenon DEF Agree
  <2> QED
    BY <1>2, <1>7, <2>1, <2>2
<1>8. Agree(more, next_noted, before, b)
  BY <1>1, <1>6, <1>7, Zenon DEF Agree
<1> QED
  BY <1>8 DEF more

\* The client gets the first event, and takes note of it.
LEMMA GetAgrees ==
  ASSUME NEW events \in Seq(Messages), events # <<>>, NEW noted, NEW before, NEW next_before,
         NEW b, Agree(events, noted, before, b),
         b \in next_before <=> IF Says(events, b, 1) THEN events[1].down ELSE b \in before
  PROVE  Agree(Tail(events), noted, next_before, b)
<1> DEFINE rest == Tail(events)
<1>1. /\ rest \in Seq(Messages) /\ Len(events) = Len(rest) + 1 /\ Len(rest) \in Nat
      /\ \A i \in 1..Len(rest) : rest[i] = events[i + 1]
  OBVIOUS
<1> HIDE DEF rest
<1>2. ASSUME NEW n \in 0..Len(rest)
      PROVE  Down(rest, next_before, b, n) <=> Down(events, before, b, n + 1)
  <2>1. \A i \in 1..n : Says(rest, b, i) <=> Says(events, b, i + 1)
    BY <1>1, <1>2 DEF Says
  <2>2. \A i \in 1..n : i + 1 \in 1..(n + 1) /\ rest[i] = events[i + 1]
    BY <1>1, <1>2
  <2>3. \A k \in 1..(n + 1) : k = 1 \/ (k - 1 \in 1..n /\ (k - 1) + 1 = k)
    BY <1>1, <1>2
  <2>4. 1 \in 1..(n + 1)
    BY <1>2
  <2>5. (\A i \in 1..(n + 1) : ~Says(events, b, i))
          <=> ~Says(events, b, 1) /\ \A i \in 1..n : ~Says(rest, b, i)
    <3>1. ASSUME ~Says(events, b, 1), \A i \in 1..n : ~Says(rest, b, i), NEW k \in 1..(n + 1)
          PROVE  ~Says(events, b, k)
      <4>1. CASE k = 1
        BY <3>1, <4>1
      <4>2. CASE k - 1 \in 1..n /\ (k - 1) + 1 = k
        <5>1. Says(rest, b, k - 1) <=> Says(events, b, k)
          BY <2>1, <4>2
        <5> QED
          BY <3>1, <4>2, <5>1, Zenon
      <4> QED
        BY <2>3, <4>1, <4>2
    <3>2. (\A i \in 1..(n + 1) : ~Says(events, b, i)) => \A i \in 1..n : ~Says(rest, b, i)
      BY <2>1, <2>2, Zenon
    <3> QED
      BY <2>4, <3>1, <3>2, Zenon
  <2>6. \A i \in 1..n : (\A j \in ((i + 1) + 1)..(n + 1) : ~Says(events, b, j))
                          <=> \A j \in (i + 1)..n : ~Says(rest, b, j)
    <3> SUFFICES ASSUME NEW i \in 1..n
                 PROVE  (\A j \in ((i + 1) + 1)..(n + 1) : ~Says(events, b, j))
                          <=> \A j \in (i + 1)..n : ~Says(rest, b, j)
      OBVIOUS
    <3>1. \A j \in (i + 1)..n : j \in 1..n /\ j + 1 \in ((i + 1) + 1)..(n + 1)
      BY <1>2
    <3>2. \A k \in ((i + 1) + 1)..(n + 1) : k - 1 \in (i + 1)..n /\ (k - 1) + 1 = k
      BY <1>2
    <3> QED
      BY <1>2, <2>1, <3>1, <3>2
  <2>7. (\A j \in (1 + 1)..(n + 1) : ~Says(events, b, j)) <=> \A i \in 1..n : ~Says(rest, b, i)
    <3>1. \A i \in 1..n : i + 1 \in (1 + 1)..(n + 1)
      BY <1>2
    <3>2. \A k \in (1 + 1)..(n + 1) : k - 1 \in 1..n /\ (k - 1) + 1 = k
      BY <1>2
    <3> QED
      BY <1>2, <2>1, <3>1, <3>2
  <2> DEFINE Newest(i) == /\ Says(events, b, i) /\ events[i].down
                          /\ \A j \in (i + 1)..(n + 1) : ~Says(events, b, j)
             NewestLeft(i) == /\ Says(rest, b, i) /\ rest[i].down
                              /\ \A j \in (i + 1)..n : ~Says(rest, b, j)
  <2>8. \A i \in 1..n : NewestLeft(i) <=> Newest(i + 1)
    BY <2>1, <2>2, <2>6, Zenon
  <2>9. Newest(1) <=> Says(events, b, 1) /\ events[1].down /\ \A i \in 1..n : ~Says(rest, b, i)
    BY <2>7, Zenon
  <2>10. Down(events, before, b, n + 1) <=>
          \/ b \in before /\ \A i \in 1..(n + 1) : ~Says(events, b, i)
          \/ \E i \in 1..(n + 1) : Newest(i)
    BY Zenon DEF Down
  <2>11. Down(rest, next_before, b, n) <=>
          \/ b \in next_before /\ \A i \in 1..n : ~Says(rest, b, i)
          \/ \E i \in 1..n : NewestLeft(i)
    BY Zenon DEF Down
  <2> HIDE DEF Newest, NewestLeft
  <2>12. (\E i \in 1..(n + 1) : Newest(i)) <=> Newest(1) \/ \E i \in 1..n : NewestLeft(i)
    <3>1. ASSUME NEW k \in 1..(n + 1), Newest(k) PROVE Newest(1) \/ \E i \in 1..n : NewestLeft(i)
      <4>1. CASE k - 1 \in 1..n /\ (k - 1) + 1 = k
        BY <2>8, <3>1, <4>1
      <4> QED
        BY <2>3, <3>1, <4>1
    <3>2. ASSUME NEW i \in 1..n, NewestLeft(i) PROVE \E k \in 1..(n + 1) : Newest(k)
      BY <2>2, <2>8, <3>2
    <3> QED
      BY <2>4, <3>1, <3>2, Zenon
  <2> QED
    BY <2>5, <2>9, <2>10, <2>11, <2>12, Zenon
<1>3. b \in noted <=> Down(rest, next_before, b, Len(rest))
  BY <1>1, <1>2 DEF Agree
<1>4. ASSUME NEW i \in 1..Len(rest), Says(rest, b, i)
      PROVE  ~(rest[i].down <=> Down(rest, next_before, b, i - 1))
  <2>1. i + 1 \in 1..Len(events) /\ (i + 1) - 1 = (i - 1) + 1 /\ i - 1 \in 0..Len(rest)
    BY <1>1
  <2>2. rest[i] = events[i + 1] /\ Says(events, b, i + 1)
    BY <1>1, <1>4 DEF Says
  <2>3. ~(events[i + 1].down <=> Down(events, before, b, (i + 1) - 1))
    BY <2>1, <2>2, Zenon DEF Agree
  <2>4. Down(rest, next_before, b, i - 1) <=> Down(events, before, b, (i - 1) + 1)
    BY <1>2, <2>1
  <2> QED
    BY <2>1, <2>2, <2>3, <2>4
<1>5. Agree(rest, noted, next_before, b)
  BY <1>3, <1>4, Zenon DEF Agree
<1> QED
  BY <1>5 DEF rest

KeysInv == \A c \in Clients, b \in Keys \cup Buttons : Agree(queue[c], pressed[c], held[c], b)

LEMMA KeysAgreeFrom == KeysInv <=> KeysAgree
BY Zenon DEF KeysInv, KeysAgree, Agree

LEMMA KeysInit == Init => KeysInv
BY NothingQueued DEF Init, KeysInv

LEMMA SameKeys == KeysInv /\ UNCHANGED <<queue, pressed, held>> => KeysInv'
BY DEF KeysInv

\* A step that changes what one client has.
LEMMA OneClient ==
  ASSUME KeysInv, NEW c \in Clients,
         \A d \in Clients \ {c} : /\ queue'[d] = queue[d] /\ pressed'[d] = pressed[d]
                                  /\ held'[d] = held[d],
         \A b \in Keys \cup Buttons : Agree(queue'[c], pressed'[c], held'[c], b)
  PROVE  KeysInv'
<1> SUFFICES ASSUME NEW d \in Clients, NEW b \in Keys \cup Buttons
             PROVE  Agree(queue'[d], pressed'[d], held'[d], b)
  BY DEF KeysInv
<1>1. CASE d = c
  BY <1>1
<1>2. CASE d # c
  <2>1. queue'[d] = queue[d] /\ pressed'[d] = pressed[d] /\ held'[d] = held[d]
    BY <1>2
  <2> QED
    BY <2>1 DEF KeysInv
<1> QED
  BY <1>1, <1>2

LEMMA ReceiveKeys ==
  ASSUME SentTypes, KeysInv, NEW c \in Clients, recv_thread(c)
  PROVE  SentTypes' /\ KeysInv'
<1>1. PICK m : m = Head(port[c])
  OBVIOUS
<1>2. port[c] \in Seq(Messages) /\ queue[c] \in Seq(Messages) /\ port[c] # <<>>
  BY DEF recv_thread, SentTypes
<1>3. m \in Messages /\ Tail(port[c]) \in Seq(Messages)
  BY <1>1, <1>2
<1>4. /\ port' = [port EXCEPT ![c] = Tail(port[c])]
      /\ pressed' = [pressed EXCEPT ![c] = IF m.type = "SWITCH" THEN PressedBy(c, m) ELSE pressed[c]]
      /\ queue' = [queue EXCEPT ![c] = IF Dropped(c, m) THEN queue[c] ELSE Append(queue[c], m)]
      /\ UNCHANGED <<inbox, todo, client_lock, held>>
  BY <1>1 DEF recv_thread, Queued, daemonvars
<1>5. Append(queue[c], m) \in Seq(Messages)
  BY <1>2, <1>3
<1>6. SentTypes'
  <2>1. port' \in [Clients -> Seq(Messages)]
    BY <1>3, <1>4 DEF SentTypes
  <2>2. queue' \in [Clients -> Seq(Messages)]
    BY <1>2, <1>4, <1>5 DEF SentTypes
  <2> QED
    BY <1>4, <2>1, <2>2 DEF SentTypes, Broadcasting
<1>7. /\ pressed'[c] = IF m.type = "SWITCH" THEN PressedBy(c, m) ELSE pressed[c]
      /\ queue'[c] = IF Dropped(c, m) THEN queue[c] ELSE Append(queue[c], m)
      /\ held'[c] = held[c]
      /\ \A d \in Clients \ {c} : /\ queue'[d] = queue[d] /\ pressed'[d] = pressed[d]
                                  /\ held'[d] = held[d]
  BY <1>4 DEF SentTypes
<1>8. ASSUME NEW b \in Keys \cup Buttons
      PROVE  Agree(queue'[c], pressed'[c], held'[c], b)
  <2>1. Agree(queue[c], pressed[c], held[c], b)
    BY DEF KeysInv
  <2>2. b \in pressed'[c] <=> IF m.type = "SWITCH" /\ m.key = b THEN m.down ELSE b \in pressed[c]
    BY <1>7, Zenon DEF PressedBy
  <2>3. CASE Dropped(c, m)
    <3>1. b \in pressed'[c] <=> b \in pressed[c]
      <4>1. m.type = "SWITCH" => (m.down <=> m.key \in pressed[c])
        BY <2>3, Zenon DEF Dropped, DeviceAdded
      <4> QED
        BY <2>2, <4>1, Zenon
    <3>2. queue'[c] = queue[c]
      BY <1>7, <2>3
    <3> QED
      BY <1>7, <2>1, <3>1, <3>2, Zenon DEF Agree
  <2>4. CASE ~Dropped(c, m)
    <3>1. m.type = "SWITCH" => ~(m.down <=> m.key \in pressed[c])
      BY <2>4, Zenon DEF Dropped
    <3>2. queue'[c] = Append(queue[c], m)
      BY <1>7, <2>4
    <3>3. Agree(Append(queue[c], m), pressed'[c], held[c], b)
      BY <1>2, <1>3, <2>1, <2>2, <3>1, AppendAgrees
    <3> QED
      BY <1>7, <3>2, <3>3
  <2> QED
    BY <2>3, <2>4
<1> QED
  BY <1>6, <1>7, <1>8, OneClient

LEMMA GetKeys ==
  ASSUME SentTypes, KeysInv, NEW c \in Clients, libinput_get_event(c)
  PROVE  SentTypes' /\ KeysInv'
<1>1. UNCHANGED <<inbox, todo, client_lock, port, pressed>>
  BY DEF libinput_get_event, daemonvars
<1>2. CASE queue[c] = <<>>
  <2>1. UNCHANGED <<queue, held>>
    BY <1>2 DEF libinput_get_event
  <2> QED
    BY <1>1, <2>1, KeepsSent, SameKeys DEF sentvars
<1>3. CASE queue[c] # <<>>
  <2>1. PICK m : m = Head(queue[c])
    OBVIOUS
  <2>2. /\ queue' = [queue EXCEPT ![c] = Tail(queue[c])]
        /\ held' = [held EXCEPT ![c] =
             IF m.type # "SWITCH" THEN held[c]
             ELSE IF m.down THEN held[c] \cup {m.key} ELSE held[c] \ {m.key}]
    BY <1>3, <2>1 DEF libinput_get_event
  <2>3. queue[c] \in Seq(Messages) /\ Tail(queue[c]) \in Seq(Messages) /\ m = queue[c][1]
    BY <1>3, <2>1 DEF SentTypes
  <2>4. SentTypes'
    <3>1. queue' \in [Clients -> Seq(Messages)] /\ DOMAIN held' = Clients
      BY <2>2, <2>3 DEF SentTypes
    <3> QED
      BY <1>1, <3>1 DEF SentTypes, Broadcasting
  <2>5. /\ queue'[c] = Tail(queue[c]) /\ pressed'[c] = pressed[c]
        /\ held'[c] = IF m.type # "SWITCH" THEN held[c]
                      ELSE IF m.down THEN held[c] \cup {m.key} ELSE held[c] \ {m.key}
        /\ \A d \in Clients \ {c} : /\ queue'[d] = queue[d] /\ pressed'[d] = pressed[d]
                                    /\ held'[d] = held[d]
    BY <1>1, <2>2 DEF SentTypes
  <2>6. ASSUME NEW b \in Keys \cup Buttons
        PROVE  Agree(queue'[c], pressed'[c], held'[c], b)
    <3>1. Agree(queue[c], pressed[c], held[c], b)
      BY DEF KeysInv
    <3>2. b \in held'[c] <=> IF Says(queue[c], b, 1) THEN queue[c][1].down ELSE b \in held[c]
      BY <2>3, <2>5, Zenon DEF Says
    <3>3. Agree(Tail(queue[c]), pressed[c], held'[c], b)
      BY <1>3, <2>3, <3>1, <3>2, GetAgrees
    <3> QED
      BY <2>5, <3>3
  <2> QED
    BY <2>4, <2>5, <2>6, OneClient
<1> QED
  BY <1>2, <1>3

LEMMA ExitsKeys ==
  ASSUME SentTypes, KeysInv, NEW c \in Clients, Exits(c)
  PROVE  SentTypes' /\ KeysInv'
<1>1. /\ port' = [port EXCEPT ![c] = <<>>] /\ queue' = [queue EXCEPT ![c] = <<>>]
      /\ pressed' = [pressed EXCEPT ![c] = {}] /\ held' = [held EXCEPT ![c] = {}]
      /\ UNCHANGED <<inbox, todo, client_lock>>
  BY DEF Exits, daemonvars
<1>2. SentTypes'
  BY <1>1 DEF SentTypes, Broadcasting
<1>3. /\ queue'[c] = <<>> /\ pressed'[c] = {} /\ held'[c] = {}
      /\ \A d \in Clients \ {c} : /\ queue'[d] = queue[d] /\ pressed'[d] = pressed[d]
                                  /\ held'[d] = held[d]
  BY <1>1 DEF SentTypes
<1>4. \A b \in Keys \cup Buttons : Agree(queue'[c], pressed'[c], held'[c], b)
  BY <1>3, NothingQueued
<1> QED
  BY <1>2, <1>3, <1>4, OneClient

LEMMA NextKeys == SentTypes /\ KeysInv /\ [Next]_vars => SentTypes' /\ KeysInv'
<1> SUFFICES ASSUME SentTypes, KeysInv, [Next]_vars PROVE SentTypes' /\ KeysInv'
  OBVIOUS
<1>1. CASE Server
  <2>1. SentTypes'
    BY <1>1, SubscribeSent, GreetsSent, EndsSent DEF Server
  <2>2. UNCHANGED <<queue, pressed, held>>
    BY <1>1 DEF Server, mach_server_thread, Greets, Ends, clientvars
  <2> QED
    BY <2>1, <2>2, SameKeys
<1>2. CASE HidSystem \/ flush_motion \/ handle_signal
  <2>1. SentTypes'
    <3>1. CASE mt_contact_frame
      BY <3>1, KeepsSent DEF mt_contact_frame, clientvars, sentvars
    <3> QED
      BY <1>2, <3>1, HidSent, FlushSent, SignalSent DEF HidSystem
  <2>2. UNCHANGED <<queue, pressed, held>>
    BY <1>2 DEF HidSystem, iohid_event_callback, Hears, mt_contact_frame, flush_motion,
                handle_signal, clientvars
  <2> QED
    BY <2>1, <2>2, SameKeys
<1>3. ASSUME NEW s \in Senders, Locks(s) \/ SendsNext(s) PROVE SentTypes' /\ KeysInv'
  <2>1. SentTypes'
    BY <1>3, LocksSent, SendsNextSent
  <2>2. UNCHANGED <<queue, pressed, held>>
    BY <1>3 DEF Locks, SendsNext, clientvars
  <2> QED
    BY <2>1, <2>2, SameKeys
<1>4. ASSUME NEW c \in Clients, libinput_udev_create_context(c) PROVE SentTypes' /\ KeysInv'
  <2>1. /\ inbox' = inbox \/ inbox' = Append(inbox, c)
        /\ UNCHANGED <<todo, client_lock, port, queue, pressed, held>>
    BY <1>4 DEF libinput_udev_create_context
  <2>2. SentTypes'
    <3>1. inbox' \in Seq(Clients)
      <4>1. inbox \in Seq(Clients)
        BY DEF SentTypes
      <4>2. Append(inbox, c) \in Seq(Clients)
        BY <4>1
      <4> QED
        BY <2>1, <4>1, <4>2
    <3> QED
      BY <2>1, <3>1 DEF SentTypes, Broadcasting
  <2> QED
    BY <2>1, <2>2, SameKeys
<1>5. ASSUME NEW c \in Clients, libinput_unref(c) \/ WritesPipe(c) \/ libinput_dispatch(c)
      PROVE  SentTypes' /\ KeysInv'
  <2>1. UNCHANGED sentvars
    BY <1>5 DEF libinput_unref, WritesPipe, libinput_dispatch, daemonvars, sentvars
  <2> QED
    BY <2>1, KeepsSent, SameKeys DEF sentvars
<1>6. CASE UNCHANGED vars
  <2>1. UNCHANGED sentvars
    BY <1>6 DEF vars, sentvars
  <2> QED
    BY <2>1, KeepsSent, SameKeys DEF sentvars
<1> QED
  BY <1>1, <1>2, <1>3, <1>4, <1>5, <1>6, ReceiveKeys, GetKeys, ExitsKeys DEF Next

\* A client sees each key's presses and releases alternate, and what it takes to be down is,
\* once it has got what is queued, what the thread noted (libinput.c: key_state_map,
\* button_state_mask): for any number of clients, keys and devices, whoever joins or dies
\* while keys are down.
THEOREM KeysAgreeInvariant == Spec => []KeysAgree
<1>1. Init => SentTypes /\ KeysInv
  BY SentInit, KeysInit
<1>2. SentTypes /\ KeysInv /\ [Next]_vars => (SentTypes /\ KeysInv)'
  BY NextKeys
<1>3. KeysInv => KeysAgree
  BY KeysAgreeFrom
<1> QED
  BY <1>1, <1>2, <1>3, PTL DEF Spec
=============================================================================
