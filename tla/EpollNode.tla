----------------------------- MODULE EpollNode -----------------------------
(***************************************************************************)
(* How the epoll shim makes Linux's events of one registered descriptor, a *)
(* socket, the end of a pipe or FIFO, or another file, out of the kevents  *)
(* macOS has for it (epollfd_ctx.c): which filters it registers for the    *)
(* events asked for (get_needed_filters), how an event of a filter becomes *)
(* event bits (feed_event), and when it registers anew because it has      *)
(* learnt that one direction has ended.                                    *)
(*                                                                         *)
(* The file changes at any time, also within epoll_wait, which is one      *)
(* thread's here; EpollWait.tla has several threads and descriptors, but   *)
(* only one kind of event.  Out-of-band data (EPOLLPRI) is left out.       *)
(***************************************************************************)
EXTENDS FiniteSets

CONSTANTS
  Kinds,       \* of files: "socket", "in", "out" and "inout" (FIFOs), "other"
  Interests    \* the sets of events asked for

Filters   == {"READ", "WRITE"}
Readiness == [READ |-> "IN", WRITE |-> "OUT"]
Fifos     == {"in", "out", "inout"}

VARIABLES
  file,       \* the descriptor's file: its kind, what can be read and written, what has ended
  node,       \* the registration: mode, events, and the eof_state learnt so far
  knote,      \* the filters in the kqueue; an EV_CLEAR one that has an event is "fired"
  user,       \* the node's own event (EVFILT_USER) is active
  kevs,       \* the kevents retrieved and not yet fed
  revents, got_evfilt,
  at,         \* where epoll_wait is; "out": not in it, or asleep
  unseen,     \* events that came up since they were last reported
  held        \* events there were at some time since epoll_wait looked

filevars == <<file>>
passvars == <<kevs, revents, got_evfilt, at>>
nodevars == <<file, node, knote, user, kevs, revents, got_evfilt, at, unseen, held>>

NoNode == [mode |-> "none", events |-> {}, eof_state |-> {}]

Init ==
  /\ file = [kind |-> "none", data |-> FALSE, room |-> FALSE, ended |-> {}, error |-> FALSE]
  /\ node = NoNode /\ knote = [f \in Filters |-> "none"] /\ user = FALSE
  /\ kevs = {} /\ revents = {} /\ got_evfilt = {} /\ at = "out"
  /\ unseen = {} /\ held = {}

Registered == node.mode # "none"
Asked(n)   == n.events \cup {"HUP", "ERR"}
-----------------------------------------------------------------------------
(* The file, and the events that Linux defines for it *)

When(condition, event) == IF condition THEN {event} ELSE {}

\* An ended direction of a socket counts as ready: the call would not block.
Events(fl) ==
  CASE fl.kind = "socket" ->
         When(fl.data \/ "READ" \in fl.ended, "IN") \cup When("READ" \in fl.ended, "RDHUP")
         \cup When(fl.room \/ "WRITE" \in fl.ended, "OUT")
         \cup When(fl.ended = Filters, "HUP") \cup When(fl.error, "ERR")
    [] fl.kind \in Fifos ->
         When(fl.data, "IN") \cup When("READ" \in fl.ended, "HUP")
         \cup When(fl.room /\ "WRITE" \notin fl.ended, "OUT") \cup When("WRITE" \in fl.ended, "ERR")
    [] OTHER ->
         When(fl.data \/ fl.ended # {}, "IN") \cup When(fl.room \/ fl.ended # {}, "OUT")
         \cup When(fl.ended # {}, "HUP")

\* A FIFO nobody reads may also be said to be writable: a write fails at once.
Reportable(fl) ==
  Events(fl) \cup When(fl.kind = "out" /\ fl.ended # {}, "OUT")

\* Has filter f an event?  (For a FIFO, room is that for PIPE_BUF bytes.)
Occurs(f, fl) ==
  f \in fl.ended \/ (f = "READ" /\ fl.data) \/ (f = "WRITE" /\ fl.room)

\* The file becomes fl, which wakes the filters fs and brings up the events es anew.
Changes(fl, fs, es) ==
  /\ file.kind # "none" /\ file' = fl
  /\ knote' = [f \in Filters |-> IF f \in fs /\ knote[f] = "clear" THEN "fired" ELSE knote[f]]
  /\ unseen' = (unseen \cup es \cup (Events(fl) \ Events(file))) \cap Asked(node) \cap Events(fl)
  /\ held' = IF at = "out" THEN {} ELSE held \cup (Reportable(fl) \cap Asked(node))
  /\ UNCHANGED <<node, user, passvars>>

Opens(kind) ==
  /\ file.kind = "none"
  /\ file' = [file EXCEPT !.kind = kind, !.room = kind # "in"]
  /\ UNCHANGED <<node, knote, user, passvars, unseen, held>>

Arrives   == file.kind # "out" /\ "READ" \notin file.ended
             /\ Changes([file EXCEPT !.data = TRUE], {"READ"}, {"IN"})
IsRead    == file.data /\ Changes([file EXCEPT !.data = FALSE], {}, {})
FillsUp   == file.room /\ Changes([file EXCEPT !.room = FALSE], {}, {})
MakesRoom == file.kind # "in" /\ ~file.room /\ "WRITE" \notin file.ended
             /\ Changes([file EXCEPT !.room = TRUE], {"WRITE"}, {})

\* The directions fs of the file end: a socket's by shutdown at either side, or both when
\* the peer closes or resets the connection; a FIFO's when the last process at its other
\* end closes it; another file's when it hangs up.
Ends(fs, error) ==
  /\ ~(fs \subseteq file.ended)
  /\ CASE file.kind = "socket" -> error => fs = Filters
       [] file.kind = "in"     -> fs = {"READ"} /\ ~error
       [] file.kind = "out"    -> fs = {"WRITE"} /\ ~error
       [] file.kind = "other"  -> fs = Filters /\ ~error
       [] OTHER                -> FALSE
  /\ Changes([file EXCEPT !.ended = @ \cup fs, !.error = @ \/ error], fs, {})

\* A FIFO's other end is opened again.
Returns ==
  /\ file.kind \in {"in", "out"} /\ file.ended # {}
  /\ Changes([file EXCEPT !.ended = {}], When(file.kind = "out" /\ file.room, "WRITE"), {})
-----------------------------------------------------------------------------
(* Registration *)

NothingBut(f, how) == [g \in Filters |-> IF g = f THEN how ELSE "none"]

\* Mutant: what is only watched for its end is level-triggered always.
MutWatch(ended) == "level"

\* "level" once it is known that there is an end to report, "clear" to learn of it.
Watch(ended) == IF ended THEN "level" ELSE "clear"

Level(n) == [f \in Filters |-> IF Readiness[f] \in n.events THEN "level" ELSE "none"]

FifoFilters(n) ==
  LET watched == CASE file.kind = "in" -> {"READ"} [] file.kind = "out" -> {"WRITE"}
                   [] file.kind = "inout" -> IF n.events = {} THEN {"READ"} ELSE {}
      own     == CASE file.kind = "in" -> {"READ"} [] file.kind = "out" -> {"WRITE"}
                   [] file.kind = "inout" -> Filters
  IN [f \in Filters |-> IF f \in own /\ Level(n)[f] = "level" THEN "level"
                        ELSE IF f \in watched THEN Watch(n.eof_state # {}) ELSE "none"]

\* Mutant: once reading has ended, nothing looks out for the end of writing.
MutSocketFilters(n) ==
  LET read  == IF Level(n)["READ"] = "none" /\ "RDHUP" \in n.events
               THEN Watch("READ" \in n.eof_state) ELSE Level(n)["READ"]
      write == Level(n)["WRITE"]
  IN IF n.eof_state = Filters
     THEN IF read = "level" \/ write # "level" THEN NothingBut("READ", "level")
          ELSE NothingBut("WRITE", "level")
     ELSE [READ  |-> IF read = "none" /\ (n.eof_state = {"WRITE"}
                                          \/ (n.eof_state = {} /\ write = "none"))
                     THEN "clear" ELSE read,
           WRITE |-> write]

\* When both directions have ended one filter is enough, mostly "EVFILT_READ to drive the
\* POLLHUP"; before that, "We need something to detect POLLHUP."
SocketFilters(n) ==
  LET read  == IF Level(n)["READ"] = "none" /\ "RDHUP" \in n.events
               THEN Watch("READ" \in n.eof_state) ELSE Level(n)["READ"]
      write == Level(n)["WRITE"]
  IN IF n.eof_state = Filters
     THEN IF read = "level" \/ write # "level" THEN NothingBut("READ", "level")
          ELSE NothingBut("WRITE", "level")
     ELSE [READ  |-> IF read = "none" /\ (n.eof_state = {"WRITE"}
                                          \/ (n.eof_state = {} /\ write = "none"))
                     THEN "clear" ELSE read,
           WRITE |-> IF write = "none" /\ n.eof_state = {"READ"} THEN "clear" ELSE write]

OtherFilters(n) ==
  IF n.events = {} THEN NothingBut("READ", Watch(n.eof_state # {})) ELSE Level(n)

\* A one-shot descriptor counts as edge-triggered.
EdgeTriggered(n) == n.mode \in {"edge", "oneshot"}

get_needed_filters(n) ==
  LET needed == CASE file.kind = "socket" -> SocketFilters(n)
                  [] file.kind \in Fifos -> FifoFilters(n)
                  [] OTHER -> OtherFilters(n)
  IN [f \in Filters |-> IF EdgeTriggered(n) /\ needed[f] # "none" THEN "clear" ELSE needed[f]]

\* EV_ADD: the filter has its event at once if there is one.
Knote(f, how) == IF how = "clear" /\ Occurs(f, file) THEN "fired" ELSE how

\* The write filter of a FIFO that nobody reads is refused (EPIPE).  The node's own event
\* takes its place.
register_events(n) ==
  LET needed == get_needed_filters(n)
      epipe  == needed["WRITE"] # "none" /\ file.kind = "out" /\ file.ended # {}
  IN /\ node' = IF epipe THEN [n EXCEPT !.eof_state = Filters] ELSE n
     /\ knote' = [f \in Filters |-> IF f = "WRITE" /\ epipe THEN "none" ELSE Knote(f, needed[f])]
     /\ user' = epipe

remove_node_from_kq ==
  knote' = [f \in Filters |-> "none"] /\ user' = FALSE

\* "Only sockets support EPOLLRDHUP."
update_flags(events, mode) ==
  [node EXCEPT !.mode = mode, !.events = events \ When(file.kind # "socket", "RDHUP")]

\* ADD, or MOD of a node, which keeps what it knows.
epoll_ctl_add_mod(events, mode) ==
  /\ at = "out" /\ file.kind # "none"
  /\ register_events(update_flags(events, mode))
  /\ unseen' = Events(file) \cap Asked(update_flags(events, mode))
  /\ UNCHANGED <<file, passvars, held>>

epoll_ctl_del ==
  /\ at = "out" /\ Registered
  /\ node' = NoNode /\ remove_node_from_kq
  /\ unseen' = {}
  /\ UNCHANGED <<file, passvars, held>>
-----------------------------------------------------------------------------
(* epoll_wait *)

Active(f)  == knote[f] \in {"level", "fired"} /\ Occurs(f, file)
KqReadable == user \/ \E f \in Filters : Active(f)

Kevent(f) == [filter |-> f, eof |-> f \in file.ended, error |-> file.error,
              some |-> IF f = "READ" THEN file.data ELSE file.room]
UserEvent == [filter |-> "USER"]

\* Any thread that waits: the kqueue is readable.
epoll_wait ==
  /\ at = "out" /\ KqReadable
  /\ at' = "kevent" /\ held' = Reportable(file) \cap Asked(node)
  /\ UNCHANGED <<file, node, knote, user, kevs, revents, got_evfilt, unseen>>

Retrieves ==
  /\ at = "kevent"
  /\ kevs' = {Kevent(f) : f \in {g \in Filters : Active(g)}} \cup When(user, UserEvent)
  /\ at' = IF KqReadable THEN "feed" ELSE "out"
  /\ held' = IF KqReadable THEN held ELSE {}
  /\ knote' = [f \in Filters |-> IF knote[f] = "fired" THEN "clear" ELSE knote[f]]
  /\ user' = FALSE
  /\ UNCHANGED <<file, node, revents, got_evfilt, unseen>>

\* What the kevent says of the end of the file; only a socket has ends of its own.
EofState(n, kev) ==
  IF file.kind = "socket"
  THEN IF kev.eof THEN n.eof_state \cup {kev.filter} ELSE n.eof_state \ {kev.filter}
  ELSE IF kev.eof THEN Filters ELSE {}

\* Mutant: one ended direction is taken for a hang-up.
MutEofEvents(kev, eof_state) ==
  IF eof_state = {} THEN {}
  ELSE CASE file.kind = "socket" ->
              When("READ" \in eof_state, "IN") \cup When("READ" \in eof_state, "RDHUP")
              \cup When("WRITE" \in eof_state, "OUT") \cup {"HUP"}
         [] file.kind \in Fifos -> {IF kev.filter = "READ" THEN "HUP" ELSE "ERR"}
         [] OTHER -> {"HUP"}

EofEvents(kev, eof_state) ==
  IF eof_state = {} THEN {}
  ELSE CASE file.kind = "socket" ->
              When("READ" \in eof_state, "IN") \cup When("READ" \in eof_state, "RDHUP")
              \cup When("WRITE" \in eof_state, "OUT") \cup When(eof_state = Filters, "HUP")
         [] file.kind \in Fifos -> {IF kev.filter = "READ" THEN "HUP" ELSE "ERR"}
         [] OTHER -> {"HUP"}

\* The bits of an event of a filter.  At the end of a FIFO it is ready only for what is
\* left in it.
EventBits(kev, eof_state) ==
  When(~(file.kind \in Fifos /\ eof_state # {} /\ ~kev.some), Readiness[kev.filter])
  \cup When(kev.eof /\ kev.error, "ERR") \cup EofEvents(kev, eof_state)

\* What has been learnt of the file's ends changes the filters that are needed.
RegistersAnew(n) ==
  IF get_needed_filters(n) # get_needed_filters(node)
     /\ ~(EdgeTriggered(n) /\ n.eof_state = Filters /\ file.kind \notin Fifos)
  THEN register_events(n)
  ELSE node' = n /\ UNCHANGED <<knote, user>>

feed_event(kev) ==
  LET n == [node EXCEPT !.eof_state = EofState(node, kev)]
  IN /\ revents' = (revents \cup EventBits(kev, n.eof_state)) \cap Asked(n)
     /\ got_evfilt' = got_evfilt \cup When(revents' # {}, kev.filter)
     /\ IF at = "feed" THEN RegistersAnew(n) ELSE node' = n /\ UNCHANGED <<knote, user>>

\* The node's own event: tries the write filter again.
feed_user_event ==
  IF file.ended # {}
  THEN /\ revents' = {"ERR", "OUT"} \cap Asked(node)
       /\ user' = ~EdgeTriggered(node) /\ UNCHANGED knote
  ELSE /\ knote' = [knote EXCEPT !["WRITE"] = Knote("WRITE", get_needed_filters(node)["WRITE"])]
       /\ UNCHANGED <<revents, user>>

\* If nothing came of all events, kevent again; an edge that is reported brings the
\* other events along.
Feeds ==
  /\ at \in {"feed", "complete"}
  /\ \E kev \in kevs :
       /\ kevs' = kevs \ {kev}
       /\ IF kev = UserEvent THEN feed_user_event /\ UNCHANGED <<node, got_evfilt>>
                             ELSE feed_event(kev)
  /\ at' = IF kevs' # {} THEN at
           ELSE IF revents' = {} THEN "kevent"
           ELSE IF at = "feed" /\ EdgeTriggered(node) THEN "edge" ELSE "report"
  /\ UNCHANGED <<file, unseen, held>>

\* A kqueue of its own tells which of the other filters have an event.
register_for_completion ==
  /\ at = "edge"
  /\ kevs' = {Kevent(f) : f \in {g \in Filters \ got_evfilt : knote[g] # "none" /\ Occurs(g, file)}}
  /\ at' = IF kevs' = {} THEN "report" ELSE "complete"
  /\ UNCHANGED <<file, node, knote, user, revents, got_evfilt, unseen, held>>

Reports ==
  /\ at = "report" /\ at' = "out"
  /\ unseen' = unseen \ revents /\ held' = {}
  /\ revents' = {} /\ got_evfilt' = {}
  /\ IF node.mode = "oneshot" THEN remove_node_from_kq ELSE UNCHANGED <<knote, user>>
  /\ UNCHANGED <<file, node, kevs>>
-----------------------------------------------------------------------------
Environment ==
  \/ \E kind \in Kinds : Opens(kind)
  \/ Arrives \/ IsRead \/ FillsUp \/ MakesRoom
  \/ \E fs \in SUBSET Filters, error \in BOOLEAN : Ends(fs, error)
  \/ Returns

Waiting == epoll_wait \/ Retrieves \/ Feeds \/ register_for_completion \/ Reports

Next ==
  \/ Environment
  \/ \E events \in Interests, mode \in {"level", "edge", "oneshot"} :
       epoll_ctl_add_mod(events, mode)
  \/ epoll_ctl_del
  \/ Waiting

Fairness == WF_nodevars(Waiting)

Spec == Init /\ [][Next]_nodevars /\ Fairness
-----------------------------------------------------------------------------
\* Not a one-shot node that was reported; nor a FIFO's edge-triggered one whose write
\* filter was refused, for which the shim does not try again after it has said so.
Armed ==
  /\ Registered
  /\ node.mode = "oneshot" \/ (node.mode = "edge" /\ file.kind = "out")
       => user \/ \E f \in Filters : knote[f] # "none"

\* What a waiting thread must still be told of: with level triggering all there is.
Due == IF node.mode = "level" THEN Events(file) \cap Asked(node) ELSE unseen

\* Between the calls of epoll_wait the kqueue is readable whenever an event is due: no
\* hang-up, half-close or readiness is waited for with a filter that does not show it.
DueReadable == at = "out" /\ Armed /\ Due # {} => KqReadable

\* An event is reported only if the file had it at some time since the thread looked:
\* eof_state, kept from call to call, is never staler than that.
ReportsTrue == at = "report" => revents \subseteq held

\* epoll_wait does not go round for ever with the instance's mutex held, retrieving a
\* level-triggered event that comes to nothing, unless the file keeps changing.
PassEnds == []<>(at = "out") \/ []<><<Environment>>_nodevars
=============================================================================
