-------------------------------- MODULE Timer --------------------------------
(***************************************************************************)
(* Timer 1 of the AVR and the latch time of the LED strip: Timer.c, and    *)
(* the part of neo_pixel.c that waits on it (show, canShow).               *)
(*                                                                         *)
(* The main program and the overflow interrupt share overflow_count, four  *)
(* bytes that the CPU stores and loads one at a time. micros() multiplies  *)
(* it by 65536 modulo 2^32, so only its two low bytes, lo and hi, matter.  *)
(*                                                                         *)
(* One step of the main program is one access to a shared byte. A pending  *)
(* interrupt is taken before the next one: what an access in flight when   *)
(* the flag rises reads or writes is also what the same access before the  *)
(* tick, or after the interrupt, does.                                     *)
(***************************************************************************)
EXTENDS Integers

CONSTANTS
  TOP,          \* counts of TCNT1 before it overflows: 65536 on the AVR
  BYTE,         \* values of a byte: 256 on the AVR
  Initial,      \* initial value of overflow_count: 65530 in the code
  TPM,          \* timer ticks in a microsecond, (F_CPU/1000000)/PRESCALER
  LatchMicros,  \* the latch time of the strip: 300
  MaxSlack      \* ticks that may pass between two accesses of main

LatchTicks == LatchMicros * TPM

ASSUME TimerAssumption ==
  /\ TOP \in Nat /\ BYTE \in Nat \ {0, 1} /\ MaxSlack \in Nat
  /\ Initial \in 0 .. BYTE * BYTE - 1
  /\ TPM \in {1, 2}                   \* F_CPU is 8 MHz or 16 MHz, PRESCALER 8
  /\ LatchMicros \in Nat \ {0}
  /\ LatchTicks <= TOP
  /\ 2 * MaxSlack < TOP               \* two accesses take a few cycles

VARIABLES
  pc,       \* where the main program is
  tcnt,     \* TCNT1
  tov,      \* TOV1, the pending overflow interrupt
  lo, hi,   \* the two low bytes of overflow_count
  got,      \* what this call of micros() has loaded so far
  slack,    \* ticks since the last access of the main program
  since,    \* history: ticks since the last bit of data, up to LatchTicks
  raced     \* history: the interrupt hit the last reset_timer() half way

timer == <<tcnt, tov, lo, hi>>
vars  == <<pc, timer, got, slack, since, raced>>

Unread  == -1
Nothing == [tcnt |-> Unread, lo |-> Unread, hi |-> Unread]

-----------------------------------------------------------------------------
(***************************************************************************)
(* The hardware and the interrupt handler.                                 *)
(***************************************************************************)

\* Timer 1 counts. Between two accesses of the main program only MaxSlack
\* ticks fit; the application and the data output take any time.
Tick ==
  /\ ~tov
  /\ pc \in {"idle", "data"} \/ slack < MaxSlack
  /\ pc # "start"
  /\ tcnt' = (tcnt + 1) % TOP
  /\ tov' = (tcnt' = 0)
  /\ since' = IF since < LatchTicks THEN since + 1 ELSE since
  /\ slack' = IF pc \in {"idle", "data"} THEN 0 ELSE slack + 1
  /\ UNCHANGED <<pc, lo, hi, got, raced>>

\* Mutant: the increment of the low byte has no carry.
OverflowWithoutCarry ==
  /\ tov
  /\ tov' = FALSE
  /\ lo' = lo + 1
  /\ raced' = (raced \/ pc \in {"clearHi", "zeroTcnt"})
  /\ UNCHANGED <<pc, tcnt, hi, got, slack, since>>

\* ++overflow_count, with its carry; no other code runs meanwhile.
TIMER1_OVF_vect ==
  /\ tov
  /\ tov' = FALSE
  /\ lo' = (lo + 1) % BYTE
  /\ hi' = IF lo' = 0 THEN (hi + 1) % BYTE ELSE hi
  /\ raced' = (raced \/ pc \in {"clearHi", "zeroTcnt"})
  /\ UNCHANGED <<pc, tcnt, got, slack, since>>

-----------------------------------------------------------------------------
(***************************************************************************)
(* The main program.                                                       *)
(***************************************************************************)

\* An access of main: no interrupt is pending, and main goes on at "to".
Step(from, to) ==
  /\ pc = from
  /\ ~tov
  /\ pc' = to
  /\ slack' = 0

\* begin(): interrupts on, TCNT1 cleared, the prescaler selected.
\* overflow_count keeps its initial value.
begin ==
  /\ Step("start", "idle")
  /\ tcnt' = 0
  /\ UNCHANGED <<tov, lo, hi, got, since, raced>>

\* show() is called on a strip that has pixels; its first poll starts.
CallShow ==
  /\ Step("idle", "micros")
  /\ got' = Nothing
  /\ UNCHANGED <<timer, since, raced>>

\* micros() loads TCNT1 and overflow_count in either order (C does not fix
\* it), overflow_count from its low byte up.
LoadTcnt ==
  /\ Step("micros", "micros")
  /\ got.tcnt = Unread
  /\ (got.lo = Unread) <=> (got.hi = Unread)
  /\ got' = [got EXCEPT !.tcnt = tcnt]
  /\ UNCHANGED <<timer, since, raced>>

LoadLo ==
  /\ Step("micros", "micros")
  /\ got.lo = Unread
  /\ got' = [got EXCEPT !.lo = lo]
  /\ UNCHANGED <<timer, since, raced>>

LoadHi ==
  /\ Step("micros", "micros")
  /\ got.lo # Unread
  /\ got.hi = Unread
  /\ got' = [got EXCEPT !.hi = hi]
  /\ UNCHANGED <<timer, since, raced>>

Loaded == got.tcnt # Unread /\ got.lo # Unread /\ got.hi # Unread

\* Mutant: ticks are taken for microseconds.
microsInTicks == got.tcnt + (got.lo + got.hi * BYTE) * TOP

\* Mutant: only the overflows are counted.
microsOfOverflows == ((got.lo + got.hi * BYTE) * TOP) \div TPM

\* (TCNT1 + overflow_count * 65536) / ((F_CPU/1000000)/PRESCALER)
micros == (got.tcnt + (got.lo + got.hi * BYTE) * TOP) \div TPM

canShow == micros >= LatchMicros

\* Mutant: the value that micros() returned first is polled forever.
PollOnce ==
  /\ Loaded
  /\ Step("micros", IF canShow THEN "data" ELSE "micros")
  /\ got' = IF canShow THEN Nothing ELSE got
  /\ UNCHANGED <<timer, since, raced>>

\* while(!canShow(adaNeo));
Poll ==
  /\ Loaded
  /\ Step("micros", IF canShow THEN "data" ELSE "micros")
  /\ got' = Nothing
  /\ UNCHANGED <<timer, since, raced>>

\* The last bit is out, and show() goes on to reset_timer().
EndData ==
  /\ Step("data", "clearLo")
  /\ since' = 0
  /\ UNCHANGED <<timer, got, raced>>

\* reset_timer(): overflow_count = 0, from its low byte up, then TCNT1 = 0.
ClearLo ==
  /\ Step("clearLo", "clearHi")
  /\ lo' = 0
  /\ raced' = FALSE
  /\ UNCHANGED <<tcnt, tov, hi, got, since>>

\* Mutant: the high byte is forgotten.
KeepHi ==
  /\ Step("clearHi", "zeroTcnt")
  /\ UNCHANGED <<timer, got, since, raced>>

ClearHi ==
  /\ Step("clearHi", "zeroTcnt")
  /\ hi' = 0
  /\ UNCHANGED <<tcnt, tov, lo, got, since, raced>>

\* Mutant: the timer itself runs on.
ZeroNothing ==
  /\ Step("zeroTcnt", "idle")
  /\ UNCHANGED <<timer, got, since, raced>>

ZeroTcnt ==
  /\ Step("zeroTcnt", "idle")
  /\ tcnt' = 0
  /\ UNCHANGED <<tov, lo, hi, got, since, raced>>

-----------------------------------------------------------------------------
\* At power-up nothing was ever sent, so the latch time has long elapsed.
Init ==
  /\ pc = "start"
  /\ tcnt = 0
  /\ tov = FALSE
  /\ lo = Initial % BYTE
  /\ hi = Initial \div BYTE
  /\ got = Nothing
  /\ slack = 0
  /\ since = LatchTicks
  /\ raced = FALSE

show == LoadTcnt \/ LoadLo \/ LoadHi \/ Poll \/ EndData

reset_timer == ClearLo \/ ClearHi \/ ZeroTcnt

Next ==
  \/ Tick
  \/ TIMER1_OVF_vect
  \/ begin
  \/ CallShow
  \/ show
  \/ reset_timer

Spec == Init /\ [][Next]_vars

\* The CPU and the timer do not stop; the application calls show() or not.
FairSpec ==
  /\ Spec
  /\ WF_vars(Tick)
  /\ WF_vars(TIMER1_OVF_vect)
  /\ WF_vars(begin)
  /\ WF_vars(show)
  /\ WF_vars(reset_timer)

-----------------------------------------------------------------------------
Places == {"start", "idle", "micros", "data", "clearLo", "clearHi", "zeroTcnt"}

\* Every variable has its type.
TypeOK ==
  /\ pc \in Places
  /\ tcnt \in 0 .. TOP - 1
  /\ tov \in BOOLEAN
  /\ lo \in 0 .. BYTE - 1
  /\ hi \in 0 .. BYTE - 1
  /\ got \in [tcnt : Unread .. TOP - 1, lo : Unread .. BYTE - 1, hi : Unread .. BYTE - 1]
  /\ slack \in 0 .. MaxSlack
  /\ since \in 0 .. LatchTicks
  /\ raced \in BOOLEAN

\* show() lets a poll start the data only when the latch time has elapsed.
LatchHeldStep == Poll /\ pc' = "data" => since = LatchTicks

\* A frame starts only when the strip has had its latch time since the last
\* one, whatever the interrupt does to the loads of micros() (neo_pixel.c,
\* show). This is what the comment in show() promises.
LatchHeld == [][LatchHeldStep]_vars

\* The latch time is kept, except after a reset_timer() that the overflow
\* interrupt hit between its first store and TCNT1 = 0: torn loads in
\* micros() alone never start a frame early.
LatchHeldUnlessRaced == [][raced \/ LatchHeldStep]_vars

\* However the interrupt splits reset_timer(), the stores leave a count of
\* at most one overflow: no carry survives into the high byte.
ResetLeavesAtMostOne == [][ZeroTcnt => hi = 0 /\ lo <= 1 /\ (lo = 1 => raced)]_vars

\* The busy wait of show() is short: a poll fails only while TCNT1 itself, and
\* not just what micros() made of it, is hardly past the latch time. So the
\* wait is over soon after a reset or an overflow, whatever the count is and
\* however its loads are torn.
HoldOffShort ==
  [][Poll /\ pc' = "micros" => tcnt < LatchTicks + 3 * MaxSlack]_vars

\* The busy wait of show() ends: some poll sees the latch time elapsed, also
\* when overflow_count wraps around meanwhile.
HoldOffEnds == pc = "micros" ~> pc = "data"
=============================================================================
