-------------------------- MODULE DiskPowerProofs --------------------------
(***************************************************************************)
(* The disk is taken for stopped only when it is off, and a stop that was  *)
(* begun is followed up, for every delay, limit and length of access.      *)
(***************************************************************************)
EXTENDS DiskPower, TLAPS

\* Only a disk that is awake is put to sleep.
SleepsAwake == at = "sleep" => ~asleep

\* A drive offers data while its command has some left.
DataLeft == \A d \in {"HD", "CF"} : drive[d].st = "data" => drive[d].todo > 0

\* An access that goes on has sectors to come.
TodoLeft == pc # "idle" => todo > 0

\* TypeOK in two parts: the flags, and what is counted or named.
Flags == /\ stopTrig \in BOOLEAN /\ hdTrig \in BOOLEAN /\ asleep \in BOOLEAN
         /\ usb \in BOOLEAN /\ power \in BOOLEAN

Counts ==
  /\ moves \in 0..CableMoves /\ stopLeft \in -1..1 /\ hdLeft \in -1..HdDelay
  /\ stopping \in 0..StopMax
  /\ curDisk \in {"HD", "CF"} /\ disk \in {"HD", "CF"}
  /\ at \in {"out", "stop", "cable", "hd", "sleep"}
  /\ pc \in {"idle", "cancel", "select", "powerUp", "awake", "launch", "arm",
             "selectCF", "ready", "cmd", "xfer"}
  /\ todo \in 0..Count /\ waited \in 0..WaitTicks
  /\ result \in {"none", "ok", "error"}
  /\ drive \in [{"HD", "CF"} -> [st : {"ready", "busy", "data", "dead"},
                                 todo : 0..Count]]

LEMMA TypeInParts == TypeOK <=> Flags /\ Counts
  BY DEF TypeOK, Flags, Counts

LEMMA TypeInPartsNext == TypeOK' <=> Flags' /\ Counts'
  BY DEF TypeOK, Flags, Counts

DInv == /\ TypeOK /\ SleepsAwake /\ DataLeft /\ TodoLeft
        /\ AsleepIsOff /\ StopIsWatched

LEMMA InitDInv == Init => DInv
<1> SUFFICES ASSUME Init PROVE DInv
  OBVIOUS
<1>1. {Count, HdDelay, WaitTicks, StopMax} \subseteq Nat \ {0} /\ CableMoves \in Nat
  BY DiskPowerAssumption
<1>2. TypeOK
  <2>1. Flags
    BY DEF Init, Flags
  <2>2. Counts
    BY <1>1 DEF Init, Counts
  <2> QED BY <2>1, <2>2, TypeInParts
<1>3. SleepsAwake /\ DataLeft /\ TodoLeft /\ AsleepIsOff /\ StopIsWatched
  BY DEF Init, SleepsAwake, DataLeft, TodoLeft, AsleepIsOff, StopIsWatched
<1> QED BY <1>2, <1>3 DEF DInv

\* The drives and the tick.
LEMMA TickDInv == DInv /\ (TickStep \/ \E d \in {"HD", "CF"} : DriveStep(d) \/ DriveFails(d))
                    => DInv'
<1> SUFFICES ASSUME DInv, TickStep \/ \E d \in {"HD", "CF"} : DriveStep(d) \/ DriveFails(d)
             PROVE  DInv'
  OBVIOUS
<1> USE DEF DInv
<1>c. {Count, HdDelay, WaitTicks, StopMax} \subseteq Nat \ {0} /\ CableMoves \in Nat
  BY DiskPowerAssumption
<1>1. ASSUME NEW d \in {"HD", "CF"}, DriveStep(d) \/ DriveFails(d) PROVE DInv'
  <2>1. TypeOK'
    BY <1>1, <1>c DEF DriveStep, DriveFails, TypeOK, timers, user
  <2>2. DataLeft'
    BY <1>1 DEF DriveStep, DriveFails, DataLeft, TypeOK
  <2>3. (SleepsAwake /\ TodoLeft /\ AsleepIsOff /\ StopIsWatched)'
    BY <1>1 DEF DriveStep, DriveFails, SleepsAwake, TodoLeft, AsleepIsOff,
                StopIsWatched, timers, user
  <2> QED BY <2>1, <2>2, <2>3
<1>2. CASE Tick
  <2>1. TypeOK'
    BY <1>2, <1>c DEF Tick, Less, TypeOK, drives
  <2>2. (SleepsAwake /\ DataLeft /\ TodoLeft /\ AsleepIsOff /\ StopIsWatched)'
    BY <1>2 DEF Tick, Less, TypeOK, SleepsAwake, DataLeft, TodoLeft, AsleepIsOff,
                StopIsWatched, drives
  <2> QED BY <2>1, <2>2
<1>3. CASE StopTimer
  <2>1. TypeOK'
    <3>1. Flags'
      BY <1>3, TypeInParts DEF StopTimer, ata_stopHDEnd, Flags, timers, user, drives
    <3>2. Counts'
      BY <1>3, <1>c DEF StopTimer, ata_stopHDEnd, Counts, TypeOK, timers, user, drives
    <3> QED BY <3>1, <3>2, TypeInPartsNext
  <2>2. (SleepsAwake /\ DataLeft /\ TodoLeft)'
    BY <1>3 DEF StopTimer, ata_stopHDEnd, SleepsAwake, DataLeft, TodoLeft, timers, user,
                drives
  <2>3. AsleepIsOff'
    BY <1>3 DEF StopTimer, ata_stopHDEnd, AsleepIsOff, TypeOK, timers, user, drives
  <2>4. StopIsWatched'
    BY <1>3 DEF StopTimer, ata_stopHDEnd, StopIsWatched, TypeOK, timers, user, drives
  <2> QED BY <2>1, <2>2, <2>3, <2>4
<1>4. CASE CableCheck
  <2>1. TypeOK'
    <3>1. Flags'
      BY <1>4, TypeInParts DEF CableCheck, Flags, timers, user, drives
    <3>2. Counts'
      BY <1>4, <1>c DEF CableCheck, Counts, TypeOK, timers, user, drives
    <3> QED BY <3>1, <3>2, TypeInPartsNext
  <2>2. (SleepsAwake /\ DataLeft /\ TodoLeft /\ AsleepIsOff /\ StopIsWatched)'
    BY <1>4 DEF CableCheck, SleepsAwake, DataLeft, TodoLeft, AsleepIsOff, StopIsWatched,
                user, drives
  <2> QED BY <2>1, <2>2
<1>5. CASE HdTimer
  <2>1. TypeOK'
    <3>1. Flags'
      BY <1>5, TypeInParts DEF HdTimer, Flags, timers, user, drives
    <3>2. Counts'
      BY <1>5, <1>c DEF HdTimer, Counts, TypeOK, timers, user, drives
    <3> QED BY <3>1, <3>2, TypeInPartsNext
  <2>2. (SleepsAwake /\ DataLeft /\ TodoLeft /\ AsleepIsOff /\ StopIsWatched)'
    BY <1>5 DEF HdTimer, SleepsAwake, DataLeft, TodoLeft, AsleepIsOff, StopIsWatched,
                user, drives
  <2> QED BY <2>1, <2>2
<1>6. CASE Sleep
  <2>1. TypeOK'
    BY <1>6, <1>c DEF Sleep, Busy, TypeOK, user
  <2>2. (SleepsAwake /\ DataLeft /\ TodoLeft /\ AsleepIsOff /\ StopIsWatched)'
    BY <1>6 DEF Sleep, Busy, TypeOK, SleepsAwake, DataLeft, TodoLeft, AsleepIsOff,
                StopIsWatched, user
  <2> QED BY <2>1, <2>2
<1> QED BY <1>1, <1>2, <1>3, <1>4, <1>5, <1>6 DEF TickStep

\* The thread.
LEMMA AccessDInv == DInv /\ (AccessStep \/ setUsbFw \/ \E d \in Disks : ata_rwData(d)) => DInv'
<1> SUFFICES ASSUME DInv, AccessStep \/ setUsbFw \/ \E d \in Disks : ata_rwData(d)
             PROVE  DInv'
  OBVIOUS
<1> USE DEF DInv, Thread, Rest
<1>c. {Count, HdDelay, WaitTicks, StopMax} \subseteq Nat \ {0} /\ CableMoves \in Nat
      /\ Disks \subseteq {"HD", "CF"}
  BY DiskPowerAssumption
<1>1. ASSUME NEW d \in Disks, ata_rwData(d) PROVE DInv'
  <2>1. TypeOK'
    BY <1>1, <1>c DEF ata_rwData, TypeOK, timers, drives
  <2>2. (SleepsAwake /\ DataLeft /\ TodoLeft /\ AsleepIsOff /\ StopIsWatched)'
    BY <1>1, <1>c DEF ata_rwData, SleepsAwake, DataLeft, TodoLeft, AsleepIsOff,
                      StopIsWatched, timers, drives
  <2> QED BY <2>1, <2>2
<1>2. CASE CancelStop \/ ata_selectHD \/ SetAwake \/ hd_launchTimer \/ ArmHdTimer
           \/ ata_selectCF \/ WaitReady \/ setUsbFw
  <2>1. TypeOK'
    <3>1. Flags'
      <4>1. CASE ArmHdTimer
        BY <4>1, TypeInParts DEF ArmHdTimer, Flags, drives
      <4>2. CASE CancelStop \/ ata_selectHD \/ SetAwake \/ hd_launchTimer \/ ata_selectCF
                 \/ WaitReady \/ setUsbFw
        BY <4>2, TypeInParts DEF CancelStop, ata_selectHD, SetAwake, hd_launchTimer,
             ata_selectCF, WaitReady, setUsbFw, Flags, timers, user, drives
      <4> QED BY <1>2, <4>1, <4>2
    <3>2. Counts'
      BY <1>2, <1>c DEF CancelStop, ata_selectHD, SetAwake, hd_launchTimer, ArmHdTimer,
             ata_selectCF, WaitReady, setUsbFw, Counts, TypeOK, timers, user, drives
    <3> QED BY <3>1, <3>2, TypeInPartsNext
  <2>2. (SleepsAwake /\ DataLeft /\ TodoLeft)'
    BY <1>2 DEF CancelStop, ata_selectHD, SetAwake, hd_launchTimer, ArmHdTimer,
                ata_selectCF, WaitReady, setUsbFw, SleepsAwake, DataLeft, TodoLeft, timers,
                user, drives
  <2>3. (AsleepIsOff /\ StopIsWatched)'
    BY <1>2 DEF CancelStop, ata_selectHD, SetAwake, hd_launchTimer, ArmHdTimer,
                ata_selectCF, WaitReady, setUsbFw, AsleepIsOff, StopIsWatched, timers,
                user, drives
  <2> QED BY <2>1, <2>2, <2>3
<1>3. CASE ata_powerUpHD
  <2>1. TypeOK'
    BY <1>3, <1>c DEF ata_powerUpHD, Busy, TypeOK, timers
  <2>2. (SleepsAwake /\ DataLeft /\ TodoLeft /\ AsleepIsOff /\ StopIsWatched)'
    BY <1>3 DEF ata_powerUpHD, Busy, TypeOK, SleepsAwake, DataLeft, TodoLeft, AsleepIsOff,
                StopIsWatched, timers
  <2> QED BY <2>1, <2>2
<1>4. CASE SendCommand
  <2>1. TypeOK'
    BY <1>4, <1>c DEF SendCommand, Busy, TypeOK, timers
  <2>2. (SleepsAwake /\ DataLeft /\ TodoLeft /\ AsleepIsOff /\ StopIsWatched)'
    BY <1>4, <1>c DEF SendCommand, Busy, TypeOK, SleepsAwake, DataLeft, TodoLeft,
                      AsleepIsOff, StopIsWatched, timers
  <2> QED BY <2>1, <2>2
<1>5. CASE Sector
  <2>1. Offers(curDisk) => drive[curDisk].todo \in 1..Count
    BY <1>c DEF Offers, TypeOK, DataLeft
  <2>2. TypeOK'
    BY <1>5, <1>c, <2>1 DEF Sector, Busy, TypeOK, TodoLeft, timers
  <2>3. (SleepsAwake /\ DataLeft /\ TodoLeft /\ AsleepIsOff /\ StopIsWatched)'
    BY <1>5, <1>c, <2>1 DEF Sector, Busy, TypeOK, SleepsAwake, DataLeft, TodoLeft,
                            AsleepIsOff, StopIsWatched, timers
  <2> QED BY <2>2, <2>3
<1> QED BY <1>1, <1>2, <1>3, <1>4, <1>5 DEF AccessStep

LEMMA NextDInv == DInv /\ [Next]_vars => DInv'
<1> SUFFICES ASSUME DInv, [Next]_vars PROVE DInv'
  OBVIOUS
<1>1. CASE Next
  BY <1>1, TickDInv, AccessDInv DEF Next
<1>2. CASE UNCHANGED vars
  BY <1>2 DEF vars, timers, user, drives, DInv, TypeOK, SleepsAwake, DataLeft, TodoLeft,
              AsleepIsOff, StopIsWatched
<1> QED BY <1>1, <1>2

LEMMA DInvAlways == Spec => []DInv
  BY InitDInv, NextDInv, PTL DEF Spec

\* The type invariant of the disk model.
THEOREM DiskTypeCorrect == Spec => []TypeOK
<1>1. DInv => TypeOK
  BY DEF DInv
<1> QED BY <1>1, DInvAlways, PTL

\* hd_sleep_state is set with the power off, and cleared before anything is
\* asked of the disk, wherever the tick comes between the steps of a thread.
THEOREM SleepMeansOff == Spec => []AsleepIsOff
<1>1. DInv => AsleepIsOff
  BY DEF DInv
<1> QED BY <1>1, DInvAlways, PTL

\* A stop that was begun is looked at again on the next tick.
THEOREM StopsAreFollowed == Spec => []StopIsWatched
<1>1. DInv => StopIsWatched
  BY DEF DInv
<1> QED BY <1>1, DInvAlways, PTL
=============================================================================
