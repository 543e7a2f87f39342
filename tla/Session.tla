------------------------------- MODULE Session -------------------------------
(***************************************************************************)
(* Processes load the library (Startup.tla) and one of them draws          *)
(* (FramePipeline.tla).  The two meet in framebufferd: the copy of it that *)
(* registers is the one that takes the frames, and when it dies another    *)
(* process that loads starts the next one, to which the client's stale     *)
(* port must find its way.                                                 *)
(***************************************************************************)
EXTENDS Startup, FramePipeline

CONSTANT Renderer    \* the process that draws

ASSUME SessionAssumption ==
  /\ Renderer \in Processes /\ MaxDeaths \in Nat
  /\ {GBM_NUM_BUFFERS, PortLimit} \subseteq Nat \ {0} /\ MaxFrames \in Nat
  /\ Refusals \subseteq SUBSET Bos

SessionInit == StartupInit /\ Init

allvars == <<startupvars, vars>>

\* A process loads; one that has died and comes again is a process of its own.
Loading == (\E p \in Processes : Loads(p)) /\ UNCHANGED vars

Registering ==
  \/ Registers("inputd") /\ UNCHANGED vars
  \/ Registers("framebufferd") /\ IF Registered THEN UNCHANGED vars ELSE Serves

Dying == FramebufferdDies /\ Dies

Drawing == load[Renderer] = "loaded" /\ Client /\ UNCHANGED startupvars

Presenting == Daemon /\ UNCHANGED startupvars

Next == Loading \/ Registering \/ Dying \/ Drawing \/ Presenting

\* Processes that load, and framebufferd's two threads, go on; a client draws or not.
Fairness ==
  /\ \A p \in Processes : WF_allvars(Loads(p) /\ UNCHANGED vars)
  /\ WF_allvars(Registering)
  /\ WF_allvars((Receives \/ Stores) /\ UNCHANGED startupvars)
  /\ WF_allvars((TimerFires \/ TimerClears \/ TimerSnapshot \/ TimerPresents)
                /\ UNCHANGED startupvars)

Spec == SessionInit /\ [][Next]_allvars /\ Fairness
=============================================================================
