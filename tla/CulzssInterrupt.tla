-------------------------- MODULE CulzssInterrupt --------------------------
(***************************************************************************)
(* Culzss with the handler main installs for SIGINT (main.c,               *)
(* signal_callback_handler).  The handler may interrupt any live thread,   *)
(* main included, and that thread does not run again: the handler calls    *)
(* queueDelete, which asks the three consumers to leave                    *)
(* (signalExitThreads: exit_signal++, then a spin until three others have  *)
(* incremented it too), frees the queue, and ends the process.             *)
(*                                                                         *)
(* Bound: one signal.  It arrives after queueInit (before it, fifo is a    *)
(* null pointer).  Once the handler has freed the queue, a thread that     *)
(* still runs uses freed memory; the steps it takes here are those of a    *)
(* run in which the memory was not reused.                                 *)
(***************************************************************************)
EXTENDS Culzss

VARIABLES hpc,      \* where the handler is: "idle" until the signal
          victim    \* the thread it runs on, or "nobody"

handlerVars == <<hpc, victim>>
intVars == <<vars, handlerVars>>

IntInit == Init /\ hpc = "idle" /\ victim = "nobody"

HandlerAt(label) == proc = "running" /\ hpc = label

\* SIGINT is delivered to a thread that has not ended.
Interrupt(t) ==
    /\ HandlerAt("idle")
    /\ pc[t] # "done"
    /\ victim' = t
    /\ hpc' = "delete"
    /\ UNCHANGED vars

HandlerSignalExit ==
    /\ HandlerAt("delete")
    /\ exit_signal' = exit_signal + 1
    /\ hpc' = "spin"
    /\ UNCHANGED <<pc, mut, queueVars, dataVars, stream, fileVars, freed, proc,
                   victim>>

\* Mistake: the handler counts one consumer less than there are.
HandlerDeleteEarly ==
    /\ HandlerAt("spin")
    /\ exit_signal > 2
    /\ freed' = TRUE
    /\ hpc' = "exit"
    /\ UNCHANGED <<pc, mut, queueVars, dataVars, stream, fileVars, exit_signal,
                   proc, victim>>

HandlerDelete ==
    /\ HandlerAt("spin")
    /\ exit_signal > 3
    /\ freed' = TRUE
    /\ hpc' = "exit"
    /\ UNCHANGED <<pc, mut, queueVars, dataVars, stream, fileVars, exit_signal,
                   proc, victim>>

HandlerExit ==
    /\ HandlerAt("exit")
    /\ proc' = "exited"
    /\ hpc' = "done"
    /\ UNCHANGED <<pc, mut, queueVars, dataVars, stream, fileVars, exit_signal,
                   freed, victim>>

HandlerStep == HandlerSignalExit \/ HandlerDelete \/ HandlerExit

\* The threads go on, except the interrupted one.
ThreadStep(t) ==
    /\ t # victim
    /\ \/ t \in Stages /\ (StageStep(t) \/ SpuriousWakeup(t) \/ Fail(t))
       \/ t = "main" /\ MainStep
    /\ UNCHANGED handlerVars

IntDeviceRun(s) == (DeviceRun(s) \/ DeviceError(s)) /\ UNCHANGED handlerVars

IntNext ==
    \/ \E t \in Threads : Interrupt(t) \/ ThreadStep(t)
    \/ HandlerStep
    \/ \E s \in Slots : IntDeviceRun(s)

IntSpec == IntInit /\ [][IntNext]_intVars

-----------------------------------------------------------------------------
(* Properties.                                                             *)

\* The queue is freed, by main or by the handler, only after the three
\* consumers have left their loops.  (They may still be on their way out, and
\* the producer, which has no exit test, may be anywhere.)
FreedAfterConsumersLeft ==
    freed => \A t \in {"gpu", "cpu", "snd"} : pc[t] \in {"finish", "done"}
=============================================================================
