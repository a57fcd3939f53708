----------------------------- MODULE DiskPower -----------------------------
(***************************************************************************)
(* Who powers the hard disk: ata_rwData (kernel/driver/ata.c) called by a  *)
(* thread, the inactivity timer hd_timer (kernel/driver/bat_power.c) and   *)
(* the stop timer ataStop_tmr, whose actions run in the tick interrupt.    *)
(* The disk and the compact flash card share one set of registers, chosen  *)
(* by cur_disk.                                                            *)
(*                                                                         *)
(* The tick may come between any two steps of the thread; its own steps    *)
(* are not interrupted.  Time is kept as what is left of each timer, so    *)
(* the wrap of the tick counter (see Timer) does not occur here.           *)
(***************************************************************************)
EXTENDS Integers

CONSTANTS
  Disks,       \* the disks the thread reads: "HD", "CF"
  Count,       \* bound: sectors of an access
  HdDelay,     \* hd_freq_rep, in ticks
  WaitTicks,   \* WAIT_READY_TIMEOUT and WAIT_XFER_TIMEOUT
  StopMax,     \* the 1000 of ata_stopTmrFct
  CableMoves,  \* bound: how often the power cable comes or goes
  UsbUsed,     \* TRUE: USB mode may be entered and left
  DiskFails    \* TRUE: a drive may stay busy for ever

ASSUME DiskPowerAssumption ==
  /\ Disks \subseteq {"HD", "CF"}
  /\ {Count, HdDelay, WaitTicks, StopMax} \subseteq Nat \ {0}
  /\ CableMoves \in Nat
  /\ UsbUsed \in BOOLEAN /\ DiskFails \in BOOLEAN

VARIABLES
  stopTrig, stopLeft,  \* ataStop_tmr: trigger, and expires - tick
  hdTrig, hdLeft,      \* hd_timer
  stopping,            \* ata_stopping
  asleep,              \* hd_sleep_state
  curDisk,             \* cur_disk
  usb,                 \* kusb_fw_status
  moves,               \* ghost: cable moves so far
  at,                  \* where the tick is, "out" outside the interrupt
  pc, disk, todo,      \* the thread in ata_rwData: place, disk, sectors left
  waited,              \* ticks since it entered a wait loop
  result,              \* of the last access
  power, drive         \* the hard disk is powered; what each drive is doing

timers == <<stopTrig, stopLeft, hdTrig, hdLeft>>
user   == <<pc, disk, todo, waited, result>>
drives == <<power, drive>>
vars   == <<timers, stopping, asleep, curDisk, usb, moves, at, user, drives>>

Init ==
  /\ stopTrig = FALSE /\ stopLeft = 0
  /\ hdTrig = TRUE /\ hdLeft = HdDelay
  /\ stopping = 0 /\ asleep = FALSE /\ curDisk = "HD" /\ usb = FALSE /\ moves = 0
  /\ at = "out"
  /\ pc = "idle" /\ disk = "HD" /\ todo = 0 /\ waited = 0
  /\ result = "none"
  /\ power = TRUE
  /\ drive = [d \in {"HD", "CF"} |-> [st |-> "ready", todo |-> 0]]

(***************************************************************************)
(* The drives.  A command makes a drive busy; then it offers its sectors   *)
(* one by one, and is ready when none is left.  Without power it answers   *)
(* nothing.                                                                *)
(***************************************************************************)
Powered(d) == d = "CF" \/ power
Busy(n) == [st |-> "busy", todo |-> n]

\* IDE_STATUS_BSY clear and IDE_STATUS_RDY set; with IDE_STATUS_DRQ: data.
Ready(d) == Powered(d) /\ drive[d].st \in {"ready", "data"}
Offers(d) == Powered(d) /\ drive[d].st = "data"

DriveStep(d) ==
  /\ Powered(d) /\ drive[d].st = "busy"
  /\ drive' = [drive EXCEPT ![d].st = IF drive[d].todo > 0 THEN "data" ELSE "ready"]
  /\ UNCHANGED <<timers, stopping, asleep, curDisk, usb, moves, at, user, power>>

\* A drive that fails never leaves its busy state again.
DriveFails(d) ==
  /\ DiskFails /\ Powered(d) /\ drive[d].st = "busy"
  /\ drive' = [drive EXCEPT ![d].st = "dead"]
  /\ UNCHANGED <<timers, stopping, asleep, curDisk, usb, moves, at, user, power>>

(***************************************************************************)
(* The tick: ataStop_tmr was set up last and comes first in the list, then *)
(* the cable check, then hd_timer.                                         *)
(***************************************************************************)
Less(n) == IF n > -1 THEN n - 1 ELSE n

\* A thread is not kept from finishing hd_launchTimer for the whole delay.
StartIsShort == pc = "arm" => hdLeft > 1

Tick ==
  /\ at = "out" /\ StartIsShort
  /\ at' = "stop"
  /\ stopLeft' = Less(stopLeft) /\ hdLeft' = Less(hdLeft)
  /\ waited' = IF pc \in {"ready", "xfer"} /\ waited < WaitTicks THEN waited + 1
                                                                ELSE waited
  /\ UNCHANGED <<stopTrig, hdTrig, stopping, asleep, curDisk, usb, moves, pc, disk, todo,
                 result, drives>>

ata_stopHDEnd ==
  /\ power' = FALSE
  /\ hdTrig' = FALSE
  /\ asleep' = TRUE
  /\ stopping' = 0
  /\ UNCHANGED drive

\* Mutant: the limit is looked at before the count.
StopTimerLate ==
  /\ at = "stop" /\ at' = "cable"
  /\ IF ~(stopTrig /\ stopLeft <= 0)
     THEN UNCHANGED <<timers, stopping, asleep, drives>>
     ELSE IF stopping = 0
     THEN stopTrig' = FALSE /\ UNCHANGED <<stopLeft, hdTrig, hdLeft, stopping, asleep, drives>>
     ELSE IF Ready(curDisk) \/ stopping > StopMax
     THEN ata_stopHDEnd /\ stopTrig' = FALSE /\ UNCHANGED <<stopLeft, hdLeft>>
     ELSE /\ stopping' = stopping + 1
          /\ stopLeft' = 1
          /\ UNCHANGED <<stopTrig, hdTrig, hdLeft, asleep, drives>>
  /\ UNCHANGED <<curDisk, usb, moves, user>>

\* ata_stopTmrFct, every tick while armed.
StopTimer ==
  /\ at = "stop" /\ at' = "cable"
  /\ IF ~(stopTrig /\ stopLeft <= 0)
     THEN UNCHANGED <<timers, stopping, asleep, drives>>
     ELSE IF stopping = 0
     THEN stopTrig' = FALSE /\ UNCHANGED <<stopLeft, hdTrig, hdLeft, stopping, asleep, drives>>
     ELSE IF Ready(curDisk) \/ stopping + 1 > StopMax
     THEN ata_stopHDEnd /\ stopTrig' = FALSE /\ UNCHANGED <<stopLeft, hdLeft>>
     ELSE /\ stopping' = stopping + 1
          /\ stopLeft' = 1
          /\ UNCHANGED <<stopTrig, hdTrig, hdLeft, asleep, drives>>
  /\ UNCHANGED <<curDisk, usb, moves, user>>

\* pw_cableChk: chgTimer starts the inactivity timer anew when the cable moved.
CableCheck ==
  /\ at = "cable" /\ at' = "hd"
  /\ \/ UNCHANGED <<hdTrig, hdLeft, moves>>
     \/ /\ moves < CableMoves /\ moves' = moves + 1
        /\ hdTrig' = ~asleep
        /\ hdLeft' = IF asleep THEN hdLeft ELSE HdDelay
  /\ UNCHANGED <<stopTrig, stopLeft, stopping, asleep, curDisk, usb, user, drives>>

\* hd_timer_fct: in USB mode the timer starts again, else ata_stopHD selects the
\* disk and goes into ata_sleep.
HdTimer ==
  /\ at = "hd"
  /\ IF ~(hdTrig /\ hdLeft <= 0)
     THEN at' = "out" /\ UNCHANGED <<hdTrig, hdLeft, curDisk>>
     ELSE IF usb
     THEN /\ at' = "out"
          /\ hdTrig' = ~asleep
          /\ hdLeft' = IF asleep THEN hdLeft ELSE HdDelay
          /\ UNCHANGED curDisk
     ELSE /\ hdTrig' = FALSE
          /\ IF asleep THEN at' = "out" /\ UNCHANGED curDisk
                       ELSE at' = "sleep" /\ curDisk' = "HD"
          /\ UNCHANGED hdLeft
  /\ UNCHANGED <<stopTrig, stopLeft, stopping, asleep, usb, moves, user, drives>>

\* Mutant: the stop timer is not started.
SleepUnwatched ==
  /\ at = "sleep" /\ Ready("HD")
  /\ drive' = [drive EXCEPT !["HD"] = Busy(0)]
  /\ stopping' = 1
  /\ at' = "out"
  /\ UNCHANGED <<timers, asleep, curDisk, usb, moves, user, power>>

\* ata_sleep once the drive is ready (in the interrupt the tick does not advance,
\* so the loop of ata_waitForReady has no other end), then the stop timer.
Sleep ==
  /\ at = "sleep" /\ Ready("HD")
  /\ drive' = [drive EXCEPT !["HD"] = Busy(0)]
  /\ stopping' = 1
  /\ stopTrig' = TRUE /\ stopLeft' = 1
  /\ at' = "out"
  /\ UNCHANGED <<hdTrig, hdLeft, asleep, curDisk, usb, moves, user, power>>

TickStep == Tick \/ StopTimer \/ CableCheck \/ HdTimer \/ Sleep

(***************************************************************************)
(* The thread: ATA_SELECT_DISK statement by statement, the wait for the    *)
(* drive, the command, the sectors.                                        *)
(***************************************************************************)
Thread(from, to) == at = "out" /\ pc = from /\ pc' = to
Rest == UNCHANGED <<usb, moves, at, disk>>

ata_rwData(d) ==
  /\ Thread("idle", IF d = "HD" THEN "cancel" ELSE "selectCF")
  /\ disk' = d /\ todo' = Count /\ result' = "none"
  /\ UNCHANGED <<timers, stopping, asleep, curDisk, usb, moves, at, waited, drives>>

\* ata_stopping = 0
CancelStop ==
  /\ Thread("cancel", "select")
  /\ stopping' = 0
  /\ UNCHANGED <<timers, asleep, curDisk, todo, waited, result, drives>> /\ Rest

ata_selectHD ==
  /\ Thread("select", "powerUp")
  /\ curDisk' = "HD"
  /\ UNCHANGED <<timers, stopping, asleep, todo, waited, result, drives>> /\ Rest

\* A disk that was off is busy until it has spun up.
ata_powerUpHD ==
  /\ Thread("powerUp", "awake")
  /\ power' = TRUE
  /\ drive' = IF power THEN drive ELSE [drive EXCEPT !["HD"] = Busy(0)]
  /\ UNCHANGED <<timers, stopping, asleep, curDisk, todo, waited, result>> /\ Rest

\* Mutant: hd_sleep_state is not cleared.
SetAwakeNot ==
  /\ Thread("awake", "launch")
  /\ UNCHANGED <<timers, stopping, asleep, curDisk, todo, waited, result, drives>>
  /\ Rest

\* hd_sleep_state = 0
SetAwake ==
  /\ Thread("awake", "launch")
  /\ asleep' = FALSE
  /\ UNCHANGED <<timers, stopping, curDisk, todo, waited, result, drives>> /\ Rest

\* Mutant: an access does not start the inactivity timer.
hd_launchTimerNot ==
  /\ Thread("launch", "ready")
  /\ waited' = 0
  /\ UNCHANGED <<timers, stopping, asleep, curDisk, todo, result, drives>> /\ Rest

\* hd_launchTimer: the deadline, unless the disk sleeps.
hd_launchTimer ==
  /\ Thread("launch", IF asleep THEN "ready" ELSE "arm")
  /\ hdLeft' = IF asleep THEN hdLeft ELSE HdDelay
  /\ waited' = 0
  /\ UNCHANGED <<stopTrig, stopLeft, hdTrig, stopping, asleep, curDisk, todo,
                 result, drives>> /\ Rest

\* tmr_start
ArmHdTimer ==
  /\ Thread("arm", "ready")
  /\ hdTrig' = (hdLeft > 0)
  /\ waited' = 0
  /\ UNCHANGED <<stopTrig, stopLeft, hdLeft, stopping, asleep, curDisk, todo,
                 result, drives>> /\ Rest

ata_selectCF ==
  /\ Thread("selectCF", "ready")
  /\ curDisk' = "CF" /\ waited' = 0
  /\ UNCHANGED <<timers, stopping, asleep, todo, result, drives>> /\ Rest

\* ata_waitForReady: go on, or give up with an error.
WaitReady ==
  /\ \/ Ready(curDisk) /\ Thread("ready", "cmd") /\ UNCHANGED result
     \/ ~Ready(curDisk) /\ waited >= WaitTicks /\ Thread("ready", "idle")
        /\ result' = "error"
  /\ UNCHANGED <<timers, stopping, asleep, curDisk, todo, waited, drives>> /\ Rest

\* The command, to the drive that is selected by now.
SendCommand ==
  /\ Thread("cmd", "xfer")
  /\ drive' = IF Powered(curDisk) THEN [drive EXCEPT ![curDisk] = Busy(Count)] ELSE drive
  /\ waited' = 0
  /\ UNCHANGED <<timers, stopping, asleep, curDisk, todo, result, power>> /\ Rest

\* ata_waitForXfer and one sector; the last one ends the access.  A timeout ends
\* it with 0 as well.
Sector ==
  /\ \/ /\ Offers(curDisk)
        /\ Thread("xfer", IF todo = 1 THEN "idle" ELSE "xfer")
        /\ todo' = todo - 1
        /\ drive' = [drive EXCEPT ![curDisk] = Busy(@.todo - 1)]
        /\ waited' = 0
        /\ result' = IF todo = 1 THEN "ok" ELSE result
     \/ /\ ~Offers(curDisk) /\ waited >= WaitTicks
        /\ Thread("xfer", "idle")
        /\ result' = "ok"
        /\ UNCHANGED <<todo, drive, waited>>
  /\ UNCHANGED <<timers, stopping, asleep, curDisk, power>> /\ Rest

\* enableUsbFw and disableUsbFw.
setUsbFw ==
  /\ UsbUsed /\ at = "out" /\ pc = "idle"
  /\ usb' = ~usb
  /\ UNCHANGED <<timers, stopping, asleep, curDisk, moves, at, user, drives>>

AccessStep ==
  \/ CancelStop \/ ata_selectHD \/ ata_powerUpHD \/ SetAwake \/ hd_launchTimer
  \/ ArmHdTimer \/ ata_selectCF \/ WaitReady \/ SendCommand \/ Sector

Next ==
  \/ TickStep \/ AccessStep \/ setUsbFw
  \/ \E d \in Disks : ata_rwData(d)
  \/ \E d \in {"HD", "CF"} : DriveStep(d) \/ DriveFails(d)

Spec == Init /\ [][Next]_vars

(***************************************************************************)
(* Ticks keep coming, the interrupt runs on, a drive that has power and is *)
(* in order ends what it does, a thread in an access gets the processor.   *)
(***************************************************************************)
Fairness ==
  /\ WF_vars(TickStep)
  /\ \A d \in {"HD", "CF"} : WF_vars(DriveStep(d))
  /\ SF_vars(AccessStep)

FairSpec == Spec /\ Fairness

(***************************************************************************)
(* Properties.                                                             *)
(***************************************************************************)

\* The shape of the state.
TypeOK ==
  /\ stopTrig \in BOOLEAN /\ hdTrig \in BOOLEAN /\ asleep \in BOOLEAN
  /\ usb \in BOOLEAN /\ power \in BOOLEAN /\ moves \in 0..CableMoves
  /\ stopLeft \in -1..1 /\ hdLeft \in -1..HdDelay
  /\ stopping \in 0..StopMax
  /\ curDisk \in {"HD", "CF"} /\ disk \in {"HD", "CF"}
  /\ at \in {"out", "stop", "cable", "hd", "sleep"}
  /\ pc \in {"idle", "cancel", "select", "powerUp", "awake", "launch", "arm",
             "selectCF", "ready", "cmd", "xfer"}
  /\ todo \in 0..Count /\ waited \in 0..WaitTicks
  /\ result \in {"none", "ok", "error"}
  /\ drive \in [{"HD", "CF"} -> [st : {"ready", "busy", "data", "dead"},
                                 todo : 0..Count]]

\* The driver takes the disk for stopped only when it is: hd_sleep_state is set
\* with the power off, and cleared before anything is asked of the disk.
AsleepIsOff ==
  asleep => /\ ~power \/ pc = "awake"
            /\ stopping = 0

\* A disk that was told to sleep is watched: ata_stopping is looked at again on
\* the next tick, so it is powered down or the stop was cancelled.
StopIsWatched ==
  stopping > 0 => stopTrig /\ stopLeft <= 1

\* A disk that nobody uses is powered down eventually, however long the card is
\* used: it is, the disk is accessed, USB mode keeps it running, or it is stuck.
Unused == pc = "idle" \/ disk = "CF"
IdleDiskStops ==
  (Unused /\ power) ~> (~Unused \/ ~power \/ usb \/ drive["HD"].st = "dead")

\* The wait for the drive ends, ready or with a timeout: the tick interrupt that
\* puts the disk to sleep returns.
TickReturns ==
  (at = "sleep") ~> (at = "out")
=============================================================================
