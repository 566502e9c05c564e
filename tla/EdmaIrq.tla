------------------------------ MODULE EdmaIrq -------------------------------
(***************************************************************************)
(* Interrupts and polling of the EDMA data plane: edma_handle_irq, which   *)
(* runs for the interrupt line of each ring, possibly on several CPUs at a *)
(* time, edma_napi, which polls all rings, and the enabling and disabling  *)
(* of NAPI by edma_if_open and edma_if_close.                              *)
(*                                                                         *)
(* A ring interrupts while it has work and its interrupt mask register     *)
(* lets it.  The handler of any line looks at all rings, disables all of   *)
(* them, and leaves it to the poll to enable them again.                   *)
(***************************************************************************)
EXTENDS Integers

CONSTANTS
  NumRings,    \* RXDESC, TXCMPL and RXFILL rings, numbered in the order in
               \*   which the handler and the poll go through them
  NumRxdesc,   \* how many of them, the first ones, are RXDESC rings
  CPUs,        \* where polls run
  Budget,      \* EDMA_NAPI_WORK
  MaxWork      \* bound on the work that waits in one ring

ASSUME IrqAssumption == /\ NumRings \in Nat \ {0} /\ NumRxdesc \in 0 .. NumRings
                        /\ Budget \in Nat \ {0} /\ MaxWork \in Nat \ {0}

\* A ring and the interrupt line of the ring.
Lines == 0 .. NumRings - 1

VARIABLES
  work,       \* packets, completions or missing buffers of each ring
  int_mask,   \* interrupt mask register of each ring: TRUE lets it interrupt
  hpc,        \* handler of each line: "idle", "scan" or "schedule"
  hring,      \*   the ring it has come to
  hstatus,    \*   whether a status read so far was not zero
  napi,       \* NAPI: "disabled", "idle" or "scheduled"
  disabling,  \* napi_disable waits for the poll to end
  ppc,        \* edma_napi on each CPU: "idle", "poll" or "unmask"
  pring,      \*   the ring it has come to
  work_done,  \*   of the poll that NAPI runs
  forgotten   \* a handler has disabled the rings and left them to no poll

irqVars  == <<hpc, hring, hstatus>>
pollVars == <<ppc, pring, work_done>>
handoverVars == <<work, int_mask, irqVars, napi, disabling, pollVars, forgotten>>

\* After edma_irq_init: the rings may interrupt, NAPI was added, not enabled.
IrqInit ==
  /\ work = [r \in Lines |-> 0]
  /\ int_mask = [r \in Lines |-> TRUE]
  /\ hpc = [l \in Lines |-> "idle"]
  /\ hring = [l \in Lines |-> 0]
  /\ hstatus = [l \in Lines |-> FALSE]
  /\ napi = "disabled" /\ disabling = FALSE
  /\ ppc = [c \in CPUs |-> "idle"]
  /\ pring = [c \in CPUs |-> 0]
  /\ work_done = 0
  /\ forgotten = FALSE

-----------------------------------------------------------------------------
(* edma_handle_irq *)

\* A CPU takes the interrupt of a line that is asserted.
IrqTake(l) ==
  /\ hpc[l] = "idle" /\ int_mask[l] /\ work[l] > 0
  /\ hpc' = [hpc EXCEPT ![l] = "scan"]
  /\ hring' = [hring EXCEPT ![l] = 0]
  /\ hstatus' = [hstatus EXCEPT ![l] = FALSE]
  /\ UNCHANGED <<work, int_mask, napi, disabling, pollVars, forgotten>>

\* The handler reads the status of a ring and disables its interrupt.
HandlerScan(l) ==
  /\ hpc[l] = "scan" /\ hring[l] < NumRings
  /\ hstatus' = [hstatus EXCEPT ![l] = @ \/ work[hring[l]] > 0]
  /\ int_mask' = [int_mask EXCEPT ![hring[l]] = FALSE]
  /\ hring' = [hring EXCEPT ![l] = @ + 1]
  /\ UNCHANGED <<work, hpc, napi, disabling, pollVars, forgotten>>

\* No status was set: IRQ_NONE.
HandlerNone(l) ==
  /\ hpc[l] = "scan" /\ hring[l] = NumRings /\ ~hstatus[l]
  /\ hpc' = [hpc EXCEPT ![l] = "idle"]
  /\ hring' = [hring EXCEPT ![l] = 0]
  /\ forgotten' = (forgotten \/ napi # "scheduled")
  /\ UNCHANGED <<work, int_mask, hstatus, napi, disabling, pollVars>>

\* Otherwise the interrupts of the RXDESC rings are disabled once more ...
HandlerRemask(l) ==
  /\ hpc[l] = "scan" /\ hring[l] = NumRings /\ hstatus[l]
  /\ hpc' = [hpc EXCEPT ![l] = "schedule"]
  /\ int_mask' = [r \in Lines |-> IF r < NumRxdesc THEN FALSE ELSE int_mask[r]]
  /\ UNCHANGED <<work, hring, hstatus, napi, disabling, pollVars, forgotten>>

\* ... and the poll is scheduled, unless it is already or NAPI is disabled.
HandlerSchedule(l) ==
  /\ hpc[l] = "schedule"
  /\ napi' = IF napi = "idle" /\ ~disabling THEN "scheduled" ELSE napi
  /\ forgotten' = (forgotten \/ napi' # "scheduled")
  /\ hpc' = [hpc EXCEPT ![l] = "idle"]
  /\ hring' = [hring EXCEPT ![l] = 0]
  /\ hstatus' = [hstatus EXCEPT ![l] = FALSE]
  /\ UNCHANGED <<work, int_mask, disabling, pollVars>>

HandlerStep(l) ==
  \/ HandlerScan(l) \/ HandlerNone(l) \/ HandlerRemask(l) \/ HandlerSchedule(l)

-----------------------------------------------------------------------------
(* edma_napi *)

\* The scheduled poll runs on a CPU, one poll at a time.
PollBegin(c) ==
  /\ napi = "scheduled" /\ ppc[c] = "idle" /\ \A d \in CPUs : ppc[d] # "poll"
  /\ ppc' = [ppc EXCEPT ![c] = "poll"]
  /\ pring' = [pring EXCEPT ![c] = 0]
  /\ work_done' = 0
  /\ UNCHANGED <<work, int_mask, irqVars, napi, disabling, forgotten>>

\* What a poll takes from a ring: edma_clean_rx keeps to the budget.
Taken(r) == IF r < NumRxdesc /\ work[r] > Budget THEN Budget ELSE work[r]

\* It works off the next ring.
PollRing(c) ==
  /\ ppc[c] = "poll" /\ pring[c] < NumRings
  /\ work' = [work EXCEPT ![pring[c]] = @ - Taken(pring[c])]
  /\ work_done' = work_done + Taken(pring[c])
  /\ pring' = [pring EXCEPT ![c] = @ + 1]
  /\ UNCHANGED <<int_mask, irqVars, napi, disabling, ppc, forgotten>>

\* With budget left, the poll completes NAPI and then goes on to enable the
\* interrupts.
PollComplete(c) ==
  /\ ppc[c] = "poll" /\ pring[c] = NumRings /\ work_done < Budget
  /\ napi' = "idle"
  /\ ppc' = [ppc EXCEPT ![c] = "unmask"]
  /\ pring' = [pring EXCEPT ![c] = 0]
  /\ work_done' = 0
  /\ UNCHANGED <<work, int_mask, irqVars, disabling, forgotten>>

\* Mutant: NAPI is completed although the budget is used up.
PollAgainCompletes(c) ==
  /\ ppc[c] = "poll" /\ pring[c] = NumRings /\ work_done >= Budget
  /\ napi' = "idle"
  /\ forgotten' = (forgotten \/ disabling)
  /\ ppc' = [ppc EXCEPT ![c] = "idle"]
  /\ pring' = [pring EXCEPT ![c] = 0]
  /\ work_done' = 0
  /\ UNCHANGED <<work, int_mask, irqVars, disabling>>

\* Without, it stays scheduled and is run again, unless NAPI is being
\* disabled: then the NAPI core completes it.
PollAgain(c) ==
  /\ ppc[c] = "poll" /\ pring[c] = NumRings /\ work_done >= Budget
  /\ napi' = IF disabling THEN "idle" ELSE napi
  /\ forgotten' = (forgotten \/ disabling)
  /\ ppc' = [ppc EXCEPT ![c] = "idle"]
  /\ pring' = [pring EXCEPT ![c] = 0]
  /\ work_done' = 0
  /\ UNCHANGED <<work, int_mask, irqVars, disabling>>

\* Mutant: the last ring is left out.
UnmaskAllButLast(c) ==
  /\ ppc[c] = "unmask"
  /\ int_mask' = [int_mask EXCEPT ![pring[c]] = TRUE]
  /\ IF pring[c] + 2 < NumRings
       THEN pring' = [pring EXCEPT ![c] = @ + 1] /\ UNCHANGED ppc
       ELSE /\ pring' = [pring EXCEPT ![c] = 0]
            /\ ppc' = [ppc EXCEPT ![c] = "idle"]
  /\ UNCHANGED <<work, irqVars, napi, disabling, work_done, forgotten>>

\* The interrupts of all rings are enabled, one ring after the other.  NAPI may
\* be scheduled and run on another CPU meanwhile.
Unmask(c) ==
  /\ ppc[c] = "unmask"
  /\ int_mask' = [int_mask EXCEPT ![pring[c]] = TRUE]
  /\ IF pring[c] + 1 < NumRings
       THEN pring' = [pring EXCEPT ![c] = @ + 1] /\ UNCHANGED ppc
       ELSE /\ pring' = [pring EXCEPT ![c] = 0]
            /\ ppc' = [ppc EXCEPT ![c] = "idle"]
  /\ UNCHANGED <<work, irqVars, napi, disabling, work_done, forgotten>>

PollStep(c) == PollRing(c) \/ PollComplete(c) \/ PollAgain(c) \/ Unmask(c)

-----------------------------------------------------------------------------
(* edma_if_open, edma_if_close and the hardware *)

\* The first net device is opened.
NapiEnable ==
  /\ napi = "disabled"
  /\ napi' = "idle"
  /\ UNCHANGED <<work, int_mask, irqVars, disabling, pollVars, forgotten>>

\* The last net device is closed: napi_disable keeps the poll from being
\* scheduled ...
NapiDisable ==
  /\ napi # "disabled" /\ ~disabling
  /\ disabling' = TRUE
  /\ UNCHANGED <<work, int_mask, irqVars, napi, pollVars, forgotten>>

\* ... and waits for the one that is.
NapiDisabled ==
  /\ disabling /\ napi = "idle"
  /\ napi' = "disabled" /\ disabling' = FALSE
  /\ UNCHANGED <<work, int_mask, irqVars, pollVars, forgotten>>

\* A packet or a completion comes in, or an RXFILL ring runs low.
NewWork(r) ==
  /\ work[r] < MaxWork
  /\ work' = [work EXCEPT ![r] = @ + 1]
  /\ UNCHANGED <<int_mask, irqVars, napi, disabling, pollVars, forgotten>>

IrqNext ==
  \/ \E l \in Lines : IrqTake(l) \/ HandlerStep(l)
  \/ \E c \in CPUs : PollBegin(c) \/ PollStep(c)
  \/ NapiEnable \/ NapiDisable \/ NapiDisabled
  \/ \E r \in Lines : NewWork(r)

IrqSpec == IrqInit /\ [][IrqNext]_handoverVars

(* Fairness.  Interrupt lines are level-triggered: an asserted line is taken *)
(* in the end.  A handler runs to its end, and so does a poll, which is run  *)
(* when it is scheduled; napi_disable returns once NAPI is idle.  Nobody has *)
(* to open or close a device, and no work has to come.                       *)
Fairness ==
  /\ \A l \in Lines : WF_handoverVars(IrqTake(l)) /\ WF_handoverVars(HandlerStep(l))
  /\ WF_handoverVars(\E c \in CPUs : PollBegin(c))
  /\ \A c \in CPUs : WF_handoverVars(PollStep(c))
  /\ WF_handoverVars(NapiDisabled)

FairSpec == IrqSpec /\ Fairness

-----------------------------------------------------------------------------
(* Properties. *)

\* Types of the variables.
IrqTypeOK ==
  /\ work \in [Lines -> 0 .. MaxWork]
  /\ int_mask \in [Lines -> BOOLEAN]
  /\ hpc \in [Lines -> {"idle", "scan", "schedule"}]
  /\ hring \in [Lines -> 0 .. NumRings]
  /\ hstatus \in [Lines -> BOOLEAN]
  /\ napi \in {"disabled", "idle", "scheduled"} /\ disabling \in BOOLEAN
  /\ ppc \in [CPUs -> {"idle", "poll", "unmask"}]
  /\ pring \in [CPUs -> 0 .. NumRings]
  /\ work_done \in Nat
  /\ forgotten \in BOOLEAN

\* NAPI is enabled and nobody is at work: no handler, no poll.
Quiet ==
  /\ napi = "idle"
  /\ \A l \in Lines : hpc[l] = "idle"
  /\ \A c \in CPUs : ppc[c] = "idle"

\* edma_handle_irq and edma_napi hand the interrupts over to each other: a
\* handler that disables them is followed by a poll that enables them.  But for
\* the two ways out of the handler and the one out of the poll that leave them
\* disabled to nobody, whatever handlers, polls and unfinished polls on several
\* CPUs do to the mask registers in whatever order, no interrupt is left disabled
\* when nobody is at work.
EnabledUnlessForgotten == Quiet /\ ~forgotten => \A r \in Lines : int_mask[r]

\* Work in a ring is polled while NAPI is enabled, if the interrupts were not
\* left disabled that way.
WorkIsPolled ==
  \A r \in Lines :
    work[r] > 0 /\ napi # "disabled" ~>
      \/ \E c \in CPUs : ppc[c] = "poll" /\ pring[c] = r
      \/ forgotten \/ napi = "disabled"
=============================================================================
