------------------------------- MODULE Startup -------------------------------
(***************************************************************************)
(* What happens when a process loads the library on macOS (the constructor *)
(* of wayland-mac.c): unless framebufferd's service is registered it       *)
(* writes the executables of both daemons, starts them, and waits until    *)
(* both have registered.  Several processes may do so at a time, and       *)
(* framebufferd may die in between.                                        *)
(***************************************************************************)
EXTENDS Naturals, FiniteSets

CONSTANTS
  Processes,
  MaxDeaths    \* of framebufferd

Daemons == {"framebufferd", "inputd"}

VARIABLES
  file,        \* file[d]: d's executable in the support directory, "short" or "whole"
  registered,  \* the daemons whose service the bootstrap server knows
  spawned,     \* spawned[d]: how many copies of d have yet to register
  load,        \* load[p]: where p is in the constructor
  deaths

startupvars == <<file, registered, spawned, load, deaths>>

StartupInit ==
  /\ file = [d \in Daemons |-> "short"]
  /\ registered = {} /\ spawned = [d \in Daemons |-> 0]
  /\ load = [p \in Processes |-> "look_up"] /\ deaths = 0
-----------------------------------------------------------------------------
Goes(p, from, to) == load[p] = from /\ load' = [load EXCEPT ![p] = to]

\* "already running, nothing to do"; else the exception handler is run to its end.
FindsService(p) ==
  /\ Goes(p, "look_up", IF "framebufferd" \in registered THEN "loaded" ELSE "open_framebufferd")
  /\ UNCHANGED <<file, registered, spawned, deaths>>

\* extract_section opens the file with O_TRUNC, whoever uses it; copies that were started
\* from it may not survive that.  (Its failures are only reported; they are taken not to
\* happen, or the process may wait below for ever.)
Opens(p, d, from, to) ==
  /\ Goes(p, from, to)
  /\ file' = [file EXCEPT ![d] = "short"]
  /\ \E left \in 0..spawned[d] : spawned' = [spawned EXCEPT ![d] = left]
  /\ UNCHANGED <<registered, deaths>>

\* Mutant: the section is appended to what another process may have written.
MutWrites(p, d, from, to) ==
  /\ Goes(p, from, to)
  /\ file' = [file EXCEPT ![d] = IF @ = "whole" THEN "short" ELSE "whole"]
  /\ UNCHANGED <<registered, spawned, deaths>>

\* At its own offset, so that two writers leave the same file.
Writes(p, d, from, to) ==
  /\ Goes(p, from, to)
  /\ file' = [file EXCEPT ![d] = "whole"]
  /\ UNCHANGED <<registered, spawned, deaths>>

\* posix_spawn fails if the file is not whole just now, and may fail while another process
\* has it open; that is reported.
Spawns(p, d, from, to) ==
  LET others == {load[q] : q \in Processes \ {p}}
      opened == IF d = "inputd" THEN "write_inputd" ELSE "write_framebufferd"
  IN  /\ Goes(p, from, to)
      /\ \/ file[d] = "whole" /\ spawned' = [spawned EXCEPT ![d] = @ + 1]
         \/ (file[d] = "short" \/ opened \in others) /\ UNCHANGED spawned
      /\ UNCHANGED <<file, registered, deaths>>

\* Looks a service up every 5 ms until it is there.
FindsDaemon(p, d, from, to) ==
  /\ Goes(p, from, to) /\ d \in registered
  /\ UNCHANGED <<file, registered, spawned, deaths>>

Loads(p) ==
  \/ FindsService(p)
  \/ Opens(p, "framebufferd", "open_framebufferd", "write_framebufferd")
  \/ Writes(p, "framebufferd", "write_framebufferd", "spawn_framebufferd")
  \/ Spawns(p, "framebufferd", "spawn_framebufferd", "open_inputd")
  \/ Opens(p, "inputd", "open_inputd", "write_inputd")
  \/ Writes(p, "inputd", "write_inputd", "spawn_inputd")
  \/ Spawns(p, "inputd", "spawn_inputd", "wait_inputd")
  \/ FindsDaemon(p, "inputd", "wait_inputd", "wait_framebufferd")
  \/ FindsDaemon(p, "framebufferd", "wait_framebufferd", "loaded")

\* bootstrap_register fails for a copy that comes second, and it exits.
Registers(d) ==
  /\ spawned[d] > 0 /\ spawned' = [spawned EXCEPT ![d] = @ - 1]
  /\ registered' = registered \cup {d}
  /\ UNCHANGED <<file, load, deaths>>

FramebufferdDies ==
  /\ deaths < MaxDeaths /\ "framebufferd" \in registered
  /\ registered' = registered \ {"framebufferd"} /\ deaths' = deaths + 1
  /\ UNCHANGED <<file, spawned, load>>
-----------------------------------------------------------------------------
\* Loading ends, although processes that load at a time overwrite the executables the
\* others have just started or are about to, and all but one copy of a daemon exit: the
\* last to open a file starts a daemon from it.  (Unless framebufferd dies before it has
\* been found: nobody starts it again.)
LoadEnds == \A p \in Processes : <>(load[p] = "loaded" \/ deaths > 0)
=============================================================================
