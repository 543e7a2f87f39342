------------------------------- MODULE Input --------------------------------
(***************************************************************************)
(* Input from the daemon to the clients: inputd.c, which sends what the    *)
(* HID system tells it to every process that has subscribed, and           *)
(* libinput.c in each of those, where a thread receives the messages,      *)
(* queues them as events and writes a byte into the pipe the client polls. *)
(* The daemon sends with its table of clients locked and without a         *)
(* timeout, and a Mach port that holds PortLimit messages blocks it.       *)
(***************************************************************************)
EXTENDS Naturals, Sequences, FiniteSets

CONSTANTS
  Clients,      \* the processes
  Keys, Buttons,
  MAX_CLIENTS, MAX_DEVICES,
  NumDevices,   \* the devices a subscription announces
  PortLimit,    \* the messages a port holds (MACH_PORT_QLIMIT_DEFAULT)
  PipeLimit,    \* the bytes a pipe holds
  MaxInputs,    \* bounds what the daemon is told: HID events, and the signal to end
  MaxChildren,  \* bounds the children of one event
  NoOwner

ASSUME InputAssumption ==
  /\ {MAX_CLIENTS, MAX_DEVICES, NumDevices, PortLimit, PipeLimit} \subseteq Nat \ {0}
  /\ {MaxInputs, MaxChildren} \subseteq Nat /\ Keys \cap Buttons = {} /\ NoOwner \notin {"server", "hid"}
  /\ "all" \notin Clients

VARIABLES
  \* inputd
  daemon,     \* "running", "removing" (its devices) or "gone"
  inbox,      \* the subscriptions in g_server_port
  g_clients,
  client_lock,
  next,       \* the index of the client the owner of the lock sends to
  todo,       \* todo[s]: the messages thread s ("server" or "hid") has to send
  accel,      \* motion has been accumulated since the last flush
  inputs,     \* how many there were
  \* libinput, one per process
  conn,       \* "none", "stub", "open", "unref" or "dead"
  port,       \* the messages in recv_port
  thread,     \* recv_thread: "receive", "write" or "ended"
  num_devices,
  pressed,    \* key_state_map and button_state_mask
  queue,      \* ev_head to ev_tail
  pipe,       \* the bytes in the pipe
  loop,       \* the client's event loop: "poll" or "get"
  held        \* the keys and buttons that are down, by the events the client has got

daemonvars == <<daemon, inbox, g_clients, client_lock, next, todo, accel, inputs>>
clientvars == <<conn, port, thread, num_devices, pressed, queue, pipe, loop, held>>
vars == <<daemon, inbox, g_clients, client_lock, next, todo, accel, inputs,
          conn, port, thread, num_devices, pressed, queue, pipe, loop, held>>

Senders == {"server", "hid"}

Init ==
  /\ daemon = "running" /\ inbox = <<>> /\ g_clients = <<>> /\ client_lock = NoOwner /\ next = 1
  /\ todo = [s \in Senders |-> <<>>] /\ accel = FALSE /\ inputs = 0
  /\ conn = [c \in Clients |-> "none"]
  /\ port = [c \in Clients |-> <<>>] /\ thread = [c \in Clients |-> "ended"]
  /\ num_devices = [c \in Clients |-> 0] /\ pressed = [c \in Clients |-> {}]
  /\ queue = [c \in Clients |-> <<>>] /\ pipe = [c \in Clients |-> 0]
  /\ loop = [c \in Clients |-> "poll"] /\ held = [c \in Clients |-> {}]

Alive   == daemon # "gone"
Open(c) == conn[c] = "open"

Copies(n, m) == [i \in 1..n |-> m]
DeviceAdded   == [type |-> "ADDED"]
DeviceRemoved == [type |-> "REMOVED"]
Switch(b, down) == [type |-> "SWITCH", key |-> b, down |-> down]   \* a key or a button
Pointer       == [type |-> "POINTER"]                              \* motion or scrolling
-----------------------------------------------------------------------------
(* inputd: sending *)

\* Room in c's port; a send to a dead process fails at once.
CanSend(c) == conn[c] = "dead" \/ Len(port[c]) < PortLimit
SendTo(c, m) == port' = IF conn[c] = "dead" THEN port ELSE [port EXCEPT ![c] = Append(@, m)]

\* send_event locks the table.
Locks(s) ==
  /\ Alive /\ todo[s] # <<>> /\ Head(todo[s]).to = "all" /\ client_lock = NoOwner
  /\ IF g_clients = <<>> THEN todo' = [todo EXCEPT ![s] = Tail(@)] /\ UNCHANGED <<client_lock, next>>
                         ELSE client_lock' = s /\ next' = 1 /\ UNCHANGED todo
  /\ UNCHANGED <<daemon, inbox, g_clients, accel, inputs, clientvars>>

\* Mutant: a send that fails ends the broadcast, with the lock.
MutSendsNext(s) ==
  /\ Alive /\ client_lock = s /\ todo[s] # <<>> /\ CanSend(g_clients[next])
  /\ SendTo(g_clients[next], Head(todo[s]).msg)
  /\ IF next < Len(g_clients) /\ conn[g_clients[next]] # "dead"
     THEN next' = next + 1 /\ UNCHANGED <<client_lock, todo>>
     ELSE /\ client_lock' = IF conn[g_clients[next]] = "dead" THEN s ELSE NoOwner
          /\ todo' = [todo EXCEPT ![s] = Tail(@)] /\ next' = 1
  /\ UNCHANGED <<daemon, inbox, g_clients, accel, inputs, conn, thread, num_devices, pressed,
                 queue, pipe, loop, held>>

SendsNext(s) ==
  /\ Alive /\ client_lock = s /\ CanSend(g_clients[next])
  /\ SendTo(g_clients[next], Head(todo[s]).msg)
  /\ IF next < Len(g_clients)
     THEN next' = next + 1 /\ UNCHANGED <<client_lock, todo>>
     ELSE client_lock' = NoOwner /\ todo' = [todo EXCEPT ![s] = Tail(@)] /\ next' = 1
  /\ UNCHANGED <<daemon, inbox, g_clients, accel, inputs, conn, thread, num_devices, pressed,
                 queue, pipe, loop, held>>

ToAll(m) == [to |-> "all", msg |-> m]
-----------------------------------------------------------------------------
(* inputd: the server thread *)

\* Takes a subscription: a process the table has no room for is not told so.  The devices
\* are announced to everybody, and a first motion is sent to the new client alone.
mach_server_thread ==
  /\ daemon = "running" /\ todo["server"] = <<>> /\ inbox # <<>> /\ client_lock = NoOwner
  /\ inbox' = Tail(inbox)
  /\ g_clients' = IF Len(g_clients) < MAX_CLIENTS THEN Append(g_clients, Head(inbox)) ELSE g_clients
  /\ todo' = [todo EXCEPT !["server"] =
       Append(Copies(NumDevices, ToAll(DeviceAdded)), [to |-> Head(inbox), msg |-> Pointer])]
  /\ UNCHANGED <<daemon, client_lock, next, accel, inputs, clientvars>>

\* The motion for the new client, which is sent without the lock.
Greets(c) ==
  /\ Alive /\ todo["server"] # <<>> /\ Head(todo["server"]).to = c /\ CanSend(c)
  /\ SendTo(c, Head(todo["server"]).msg)
  /\ todo' = [todo EXCEPT !["server"] = Tail(@)]
  /\ UNCHANGED <<daemon, inbox, g_clients, client_lock, next, accel, inputs, conn, thread,
                 num_devices, pressed, queue, pipe, loop, held>>

\* SIGINT or SIGTERM: the server thread sees it between two subscriptions, the timer stops,
\* and main goes on: it announces that the devices are gone, and ends the process.
handle_signal ==
  /\ daemon = "running" /\ todo["server"] = <<>> /\ daemon' = "removing"
  /\ inputs < MaxInputs /\ inputs' = inputs + 1
  /\ todo' = [todo EXCEPT !["server"] = Copies(NumDevices, ToAll(DeviceRemoved))]
  /\ UNCHANGED <<inbox, g_clients, client_lock, next, accel, clientvars>>

Ends ==
  /\ daemon = "removing" /\ todo["server"] = <<>> /\ daemon' = "gone"
  /\ inbox' = <<>> /\ g_clients' = <<>> /\ client_lock' = NoOwner /\ next' = 1
  /\ todo' = [s \in Senders |-> <<>>] /\ accel' = FALSE
  /\ UNCHANGED <<inputs, clientvars>>
-----------------------------------------------------------------------------
(* inputd: the HID system *)

Hears == /\ Alive /\ todo["hid"] = <<>> /\ inputs < MaxInputs /\ inputs' = inputs + 1
         /\ UNCHANGED <<daemon, inbox, g_clients, client_lock, next, clientvars>>

\* A key (whose usage has an evdev code) comes alone.  Buttons may be several children of
\* an event; there is scrolling; a translation or mouse event is added to the motion.
iohid_event_callback ==
  LET Keyboard == {<<Switch(k, down)>> : k \in Keys, down \in BOOLEAN}
      Click    == {Switch(b, down) : b \in Buttons, down \in BOOLEAN}
      Children == {<<Pointer>>} \cup UNION {[1..n -> Click] : n \in 1..MaxChildren}
  IN  /\ Hears
      /\ \/ \E sent \in Keyboard \cup Children :
              todo' = [todo EXCEPT !["hid"] = [i \in DOMAIN sent |-> ToAll(sent[i])]]
            /\ UNCHANGED accel
         \/ accel' = TRUE /\ UNCHANGED todo

\* A finger that goes on touching moves; this comes on a thread of its own.
mt_contact_frame ==
  /\ Alive /\ inputs < MaxInputs /\ inputs' = inputs + 1
  /\ accel' = TRUE
  /\ UNCHANGED <<daemon, inbox, g_clients, client_lock, next, todo, clientvars>>

\* The timer of the HID thread's run loop; it ends with the server thread's loop.
flush_motion ==
  /\ daemon = "running" /\ todo["hid"] = <<>> /\ accel
  /\ accel' = FALSE /\ todo' = [todo EXCEPT !["hid"] = <<ToAll(Pointer)>>]
  /\ UNCHANGED <<daemon, inbox, g_clients, client_lock, next, inputs, clientvars>>
-----------------------------------------------------------------------------
(* libinput: the context *)

\* Without a daemon the context never gets an event; there is no second try.
libinput_udev_create_context(c) ==
  /\ conn[c] = "none"
  /\ IF Alive
     THEN /\ conn' = [conn EXCEPT ![c] = "open"] /\ thread' = [thread EXCEPT ![c] = "receive"]
          /\ inbox' = Append(inbox, c)
     ELSE conn' = [conn EXCEPT ![c] = "stub"] /\ UNCHANGED <<thread, inbox>>
  /\ UNCHANGED <<daemon, g_clients, client_lock, next, todo, accel, inputs, port, num_devices,
                 pressed, queue, pipe, loop, held>>

\* Closes the pipe.  The thread ends after the message it is waiting for.
libinput_unref(c) ==
  /\ Open(c) /\ loop[c] = "poll"
  /\ conn' = [conn EXCEPT ![c] = "unref"] /\ pipe' = [pipe EXCEPT ![c] = 0]
  /\ UNCHANGED <<daemonvars, port, thread, num_devices, pressed, queue, loop, held>>

\* The process ends, whatever it was doing; its port dies with it.
Exits(c) ==
  /\ conn[c] \in {"open", "unref"}
  /\ conn' = [conn EXCEPT ![c] = "dead"] /\ thread' = [thread EXCEPT ![c] = "ended"]
  /\ port' = [port EXCEPT ![c] = <<>>] /\ num_devices' = [num_devices EXCEPT ![c] = 0]
  /\ pressed' = [pressed EXCEPT ![c] = {}] /\ queue' = [queue EXCEPT ![c] = <<>>]
  /\ pipe' = [pipe EXCEPT ![c] = 0] /\ loop' = [loop EXCEPT ![c] = "poll"]
  /\ held' = [held EXCEPT ![c] = {}]
  /\ UNCHANGED daemonvars
-----------------------------------------------------------------------------
(* libinput: the receiving thread *)

\* key_state_map and button_state_mask after a message.  (The mask has the bit button & 31:
\* Buttons are such that no two share it, as the 32 from BTN_LEFT on, of which a mouse
\* has the first few.)
PressedBy(c, m) == IF m.down THEN pressed[c] \cup {m.key} ELSE pressed[c] \ {m.key}

\* A message makes no event if it changes nothing, or if there is no room for the device.
Dropped(c, m) ==
  \/ m.type = "SWITCH" /\ (m.down <=> m.key \in pressed[c])
  \/ m.type = "ADDED" /\ num_devices[c] >= MAX_DEVICES

\* Mutant: the newest event is put first.
MutQueued(c, m) == <<m>> \o queue[c]

Queued(c, m) == Append(queue[c], m)

\* Mutant: the thread returns when there is no room for a device.
MutLooping(c) == IF Open(c) /\ num_devices[c] < MAX_DEVICES THEN "receive" ELSE "ended"

Looping(c) == IF Open(c) THEN "receive" ELSE "ended"

\* Mutant: the client is not woken for a device.
MutThen(c, m) == IF Dropped(c, m) \/ m.type = "ADDED" THEN Looping(c) ELSE "write"

Then(c, m) == IF Dropped(c, m) THEN Looping(c) ELSE "write"

recv_thread(c) ==
  LET m == Head(port[c])
  IN  /\ thread[c] = "receive" /\ port[c] # <<>>
      /\ port' = [port EXCEPT ![c] = Tail(@)]
      /\ num_devices' = [num_devices EXCEPT ![c] =
           IF m.type = "ADDED" /\ @ < MAX_DEVICES THEN @ + 1 ELSE @]
      /\ pressed' = [pressed EXCEPT ![c] = IF m.type = "SWITCH" THEN PressedBy(c, m) ELSE @]
      /\ queue' = [queue EXCEPT ![c] = IF Dropped(c, m) THEN @ ELSE Queued(c, m)]
      /\ thread' = [thread EXCEPT ![c] = Then(c, m)]
      /\ UNCHANGED <<daemonvars, conn, pipe, loop, held>>

\* The byte that wakes the client; the pipe's writing end blocks.
WritesPipe(c) ==
  /\ thread[c] = "write" /\ (Open(c) => pipe[c] < PipeLimit)
  /\ pipe' = [pipe EXCEPT ![c] = IF Open(c) THEN @ + 1 ELSE @]
  /\ thread' = [thread EXCEPT ![c] = Looping(c)]
  /\ UNCHANGED <<daemonvars, conn, port, num_devices, pressed, queue, loop, held>>
-----------------------------------------------------------------------------
(* The client's loop: poll, dispatch, and get events until there is none *)

\* poll returns, and libinput_dispatch reads the pipe until it is empty.
libinput_dispatch(c) ==
  /\ Open(c) /\ loop[c] = "poll" /\ pipe[c] > 0
  /\ loop' = [loop EXCEPT ![c] = "get"] /\ pipe' = [pipe EXCEPT ![c] = 0]
  /\ UNCHANGED <<daemonvars, conn, port, thread, num_devices, pressed, queue, held>>

libinput_get_event(c) ==
  /\ Open(c) /\ loop[c] = "get"
  /\ IF queue[c] = <<>> THEN loop' = [loop EXCEPT ![c] = "poll"] /\ UNCHANGED <<queue, held>>
     ELSE LET m == Head(queue[c])
          IN  /\ queue' = [queue EXCEPT ![c] = Tail(@)] /\ UNCHANGED loop
              /\ held' = [held EXCEPT ![c] =
                   IF m.type # "SWITCH" THEN @ ELSE IF m.down THEN @ \cup {m.key} ELSE @ \ {m.key}]
  /\ UNCHANGED <<daemonvars, conn, port, thread, num_devices, pressed, pipe>>
-----------------------------------------------------------------------------
Server == mach_server_thread \/ (\E c \in Clients : Greets(c)) \/ Ends
HidSystem == iohid_event_callback \/ mt_contact_frame

Next ==
  \/ Server \/ HidSystem \/ flush_motion \/ handle_signal
  \/ \E s \in Senders : Locks(s) \/ SendsNext(s)
  \/ \E c \in Clients :
       \/ libinput_udev_create_context(c) \/ libinput_unref(c) \/ Exits(c)
       \/ recv_thread(c) \/ WritesPipe(c) \/ libinput_dispatch(c) \/ libinput_get_event(c)

\* The daemon's threads and those of a client with a context go on.  Nothing makes a
\* process end, not even one that has released its context.
Fairness ==
  /\ WF_vars(Server \/ Locks("server") \/ SendsNext("server"))
  /\ WF_vars(flush_motion \/ Locks("hid") \/ SendsNext("hid"))
  /\ \A c \in Clients :
       /\ WF_vars(recv_thread(c) \/ WritesPipe(c))
       /\ WF_vars(libinput_dispatch(c) \/ libinput_get_event(c))

Spec == Init /\ [][Next]_vars /\ Fairness
-----------------------------------------------------------------------------
\* No wakeup is lost between the thread that queues and the client that drains the pipe
\* and then the queue: with events in the queue and the client about to poll, there is a
\* byte in the pipe or one is about to be written.
QueueReadable ==
  \A c \in Clients : Open(c) /\ loop[c] = "poll" /\ queue[c] # <<>> => pipe[c] > 0 \/ thread[c] = "write"

Says(events, b, i) == events[i].type = "SWITCH" /\ events[i].key = b

\* b is down, by what was down before and the first n events.
Down(events, before, b, n) ==
  \/ b \in before /\ \A i \in 1..n : ~Says(events, b, i)
  \/ \E i \in 1..n : /\ Says(events, b, i) /\ events[i].down
                     /\ \A j \in (i + 1)..n : ~Says(events, b, j)

\* The events in the queue lead from what the client thinks is down to what the thread
\* noted as down, and each of them changes something: a key is never pressed or released
\* twice, although the HID system repeats itself and clients join while keys are down.
KeysAgree ==
  \A c \in Clients, b \in Keys \cup Buttons :
    /\ \A i \in 1..Len(queue[c]) :
         Says(queue[c], b, i) => ~(queue[c][i].down <=> Down(queue[c], held[c], b, i - 1))
    /\ b \in pressed[c] <=> Down(queue[c], held[c], b, Len(queue[c]))

\* A client that has its context gets every message that was sent to it.
ClientServed == \A c \in Clients : []<>((port[c] = <<>> /\ queue[c] = <<>>) \/ ~Open(c))

\* A process that has released its context, and does not end, keeps the port nobody
\* receives from any more.
Abandons(c) == conn[c] = "unref" /\ Len(port[c]) = PortLimit

\* Clients that come, go and die do not keep the daemon from handing out what it hears,
\* unless one leaves a full port behind and lives on: then the daemon may hang.
EventsSent == []<>(todo["hid"] = <<>>) \/ \E c \in Clients : <>[]Abandons(c)
=============================================================================
