---------------------------- MODULE BankedArray ----------------------------
(***************************************************************************)
(* Bank contention of a cache data array.  The array is the function from  *)
(* banks to the tick at which the bank's last reserved access ends         *)
(* (AccessRecord::endAccess); it is an argument, kept as state by module   *)
(* CacheMemory.                                                            *)
(***************************************************************************)
EXTENDS Integers

CONSTANTS
    Banks,        \* number of banks
    ClockPeriod   \* ticks per cycle

ASSUME BankAssumption == Banks \in Nat \ {0} /\ ClockPeriod \in Nat \ {0}

BankIds == 0 .. Banks - 1

mapIndexToBank(idx) == idx % Banks

(***************************************************************************)
(* A bank is free only strictly after the end of its last access.          *)
(***************************************************************************)
tryAccess(busyBanks, idx, now) == busyBanks[mapIndexToBank(idx)] < now

(***************************************************************************)
(* A reservation of a busy bank is queued behind the one in progress.      *)
(***************************************************************************)
reserve(busyBanks, idx, accessLatency, now) ==
    LET bank == mapIndexToBank(idx)
        startTime == IF now > busyBanks[bank] THEN now ELSE busyBanks[bank]
    IN  IF accessLatency = 0
        THEN busyBanks
        ELSE [busyBanks EXCEPT ![bank] =
                 startTime + (accessLatency - 1) * ClockPeriod]
=============================================================================
