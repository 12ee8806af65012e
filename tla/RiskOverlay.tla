----------------------------- MODULE RiskOverlay -----------------------------
(***************************************************************************)
(* services/portfolio_mgr: every round it polls the accounts, reads the    *)
(* open trades of all of them twice (for the currency exposure and for the *)
(* concentration), and publishes the risk overlay: blocked sides of pairs, *)
(* a drawdown scale against the day's high-water mark, the position count. *)
(* The NEAT desks keep the last overlay they received and check it before  *)
(* an entry; the desks of the other accounts do not read it.               *)
(*                                                                         *)
(* A failed read of the open trades is an empty list, a failed poll leaves *)
(* the account as it was.  Every trade has the same notional.  Shares and  *)
(* scales are compared after they are rounded, as in the code; a value     *)
(* midway between two steps, where doubles may go either way, goes down.   *)
(***************************************************************************)
EXTENDS Integers, FiniteSets, FiniteSetsExt

CONSTANTS
    Accounts,
    Readers,           (* the accounts whose desk reads the overlay              *)
    Pairs,             (* records of a base and a quote currency                 *)
    Traded,            (* the pairs the desk of each account trades              *)
    Starts,            (* what the accounts may hold when the manager starts     *)
    Navs,              (* the values an account's NAV takes                      *)
    Notional,          (* of one trade, in the unit of the NAVs                  *)
    Hours,             (* hours in a day (24)                                    *)
    Stalls,            (* whether an hour may pass without a round               *)
    MaxPositions,      (* RISK_MAX_POSITIONS                                     *)
    MaxConcentration,  (* RISK_MAX_CONCENTRATION                                 *)
    CurrencyCap,       (* RISK_CURRENCY_CAPS with its default, in percent        *)
    DDLimit,           (* RISK_GLOBAL_DD_DAILY_PCT                               *)
    MaxChanges,        (* bound: trades opened or closed, NAVs that move         *)
    MaxFailed,         (* bound: polls of an account and reads that fail         *)
    MaxRestarts        (* bound: restarts of the manager or of a desk            *)

Currencies == {p.base : p \in Pairs} \cup {p.quote : p \in Pairs}

ASSUME OverlayAssumption ==
    /\ IsFiniteSet(Accounts) /\ Accounts \subseteq Nat /\ Accounts # {}
    /\ Readers \subseteq Accounts
    /\ IsFiniteSet(Pairs) /\ Traded \in [Accounts -> SUBSET Pairs]
    /\ Starts \subseteq [Accounts -> [Pairs -> {-1, 0, 1}]]
    /\ IsFiniteSet(Navs) /\ Navs \subseteq Nat \ {0} /\ Navs # {}
    /\ Notional \in Nat /\ CurrencyCap \in [Currencies -> Nat]
    /\ Hours \in Nat \ {0} /\ Stalls \in BOOLEAN
    /\ MaxConcentration \in Nat /\ DDLimit \in Nat \ {0}
    /\ MaxChanges \in Nat /\ MaxFailed \in Nat /\ MaxRestarts \in Nat

VARIABLES
    pos,            (* broker: the side of each account's trade on each pair, or 0   *)
    nav,            (* broker: NAV of each account                                   *)
    hour,           (* the UTC hour                                                  *)
    pc,             (* where the round is                                             *)
    left,           (* accounts the current pass has still to read                   *)
    account_state,  (* NAV of each account as last polled, 0 before the first poll   *)
    exposed,        (* open trades as _get_currency_exposure read them               *)
    counted,        (* open trades as the second pass read them                      *)
    hwm,            (* _nav_hwm_daily                                                *)
    hwm_hour,       (* _nav_hwm_daily_reset                                          *)
    bus,            (* the overlay last published                                    *)
    due,            (* the readers whose socket still holds it                       *)
    overlay,        (* _risk_overlay of each reader                                  *)
    peak, fresh,    (* history: the day's best total NAV; no round yet since hour 0  *)
    done,           (* history: a round was completed in this hour                   *)
    stable, clean,  (* history: trades held since the round began; no failed read    *)
    changes, failed, restarts

market  == <<pos, nav, hour>>
reads   == <<pc, left, exposed, counted>>
mark    == <<hwm, hwm_hour, bus>>
day     == <<peak, fresh, done>>
bounds  == <<changes, failed, restarts>>
desks   == <<due, overlay>>
vars    == <<market, reads, account_state, mark, desks, day, stable, clean, bounds>>

Sides     == {-1, 1}
Keys      == Pairs \X Sides
NoTrades  == [p \in Pairs |-> 0]
AllEmpty  == [a \in Accounts |-> NoTrades]
\* blocked_pairs, split by the reason it gives for a block.
NoOverlay == [crowded |-> {}, exposing |-> {}, dd |-> "normal", full |-> FALSE]

-----------------------------------------------------------------------------
(* _compute_risk_overlay, as functions of what was polled and read.         *)

TotalNav(state) == MapThenSumSet(LAMBDA a : state[a], Accounts)

\* How many trades are on one side of a pair.
Count(trades, p, d) == Cardinality({a \in Accounts : trades[a][p] = d})

TotalPositions(trades) ==
    Cardinality({ap \in Accounts \X Pairs : trades[ap[1]][ap[2]] # 0})

\* Net exposure of a currency, in trades: a long trade buys the base.
Exposure(trades, c) ==
    MapThenSumSet(LAMBDA ap : trades[ap[1]][ap[2]] *
                     (IF ap[2].base = c THEN 1 ELSE IF ap[2].quote = c THEN -1 ELSE 0),
                  Accounts \X Pairs)

Size(e) == IF e < 0 THEN -e ELSE e

\* The share of the total NAV, rounded to a tenth of a percent, is above the cap:
\* it is so as soon as the share itself is past half a tenth above it.
OverCap(trades, c, total) ==
    2000 * (Size(Exposure(trades, c)) * Notional) > (20 * CurrencyCap[c] + 1) * total

AddingUnturned(p, c, e) == IF e > 0 THEN 1 ELSE -1    \* mutant: the quote's side is not turned

\* The side of p that would increase the exposure e of its currency c.
Adding(p, c, e) == (IF e > 0 THEN 1 ELSE -1) * (IF c = p.base THEN 1 ELSE -1)

Exposing(trades, total) ==
    {<<pc2[1], Adding(pc2[1], pc2[2], Exposure(trades, pc2[2]))>> :
        pc2 \in {q \in Pairs \X Currencies : /\ q[2] \in {q[1].base, q[1].quote}
                                             /\ OverCap(trades, q[2], total)}}

CrowdedNet(trades) ==               \* mutant: the sides of a pair are netted
    {k \in Keys : Count(trades, k[1], k[2]) - Count(trades, k[1], -k[2]) >= MaxConcentration}

Crowded(trades) == {k \in Keys : Count(trades, k[1], k[2]) >= MaxConcentration}

MarkEachHour(total) ==              \* mutant: reset in every new hour, as its comment has it
    IF hour # hwm_hour \/ total > hwm THEN total ELSE hwm

MarkNeverReset(total) ==            \* mutant: the first round of hour 0 is like any other
    IF total > hwm THEN total ELSE hwm

\* The mark restarts in the first round of hour 0 and only rises after that.
Mark(total) ==
    IF (hour # hwm_hour /\ hour = 0) \/ total > hwm THEN total ELSE hwm

\* The scale is 1 up to half of the limit and tapers to 0 at the limit; rounded to
\* two decimals it is 1 a little beyond the half and 0 a little before the limit.
Drawdown(m, total) ==
    CASE 40000 * (m - total) <= 201 * DDLimit * m -> "normal"
      [] 40000 * (m - total) > 399 * DDLimit * m  -> "blocked"
      [] OTHER                                    -> "tapered"

AtCapOver(n) == n > MaxPositions    \* mutant: one position too many

AtCap(n) == n >= MaxPositions
-----------------------------------------------------------------------------
(* The round of the manager.                                                *)

PolledOrNone(a, ok) ==              \* mutant: a failed poll is stored
    [account_state EXCEPT ![a] = IF ok THEN nav[a] ELSE -1]

Polled(a, ok) == [account_state EXCEPT ![a] = IF ok THEN nav[a] ELSE @]

\* A pass goes through the accounts, and the last one leads on to what follows it.
Last == left = {Min(left)}
Rest == left' = IF Last THEN Accounts ELSE left \ {Min(left)}
Onto(stage) == pc' = IF Last THEN stage ELSE pc

\* _poll_accounts.  With no account polled so far the round ends here.
PollAccount ==
    /\ pc = "poll"
    /\ \/ account_state' = Polled(Min(left), TRUE) /\ UNCHANGED failed
       \/ /\ failed < MaxFailed /\ failed' = failed + 1
          /\ account_state' = Polled(Min(left), FALSE)
    /\ Rest
    /\ Onto(IF TotalNav(account_state') > 0 THEN "exposure" ELSE "poll")
    /\ stable' = IF pc' = "exposure" THEN pos ELSE stable
    /\ UNCHANGED <<market, exposed, counted, mark, desks, day, clean, changes, restarts>>

\* get_open_trades of the next account; a failed read is an empty list.
Read(seen) ==
    /\ \/ seen' = [seen EXCEPT ![Min(left)] = pos[Min(left)]] /\ UNCHANGED <<failed, clean>>
       \/ /\ failed < MaxFailed /\ failed' = failed + 1
          /\ clean' = FALSE
          /\ seen' = [seen EXCEPT ![Min(left)] = NoTrades]
    /\ Rest

ReadExposure ==
    /\ pc = "exposure"
    /\ Read(exposed)
    /\ Onto("positions")
    /\ UNCHANGED <<market, account_state, counted, mark, desks, day, stable, changes, restarts>>

ReadPositions ==
    /\ pc = "positions"
    /\ Read(counted)
    /\ Onto("publish")
    /\ UNCHANGED <<market, account_state, exposed, mark, desks, day, stable, changes, restarts>>

\* The rest of _compute_risk_overlay.  peak is what the day's mark should be.
Publish ==
    /\ pc = "publish"
    /\ LET total == TotalNav(account_state)
       IN  /\ hwm' = Mark(total)
           /\ bus' = [crowded  |-> Crowded(counted),
                      exposing |-> Exposing(exposed, total) \ Crowded(counted),
                      dd       |-> Drawdown(hwm', total),
                      full     |-> AtCap(TotalPositions(counted))]
           /\ peak' = IF fresh \/ total > peak THEN total ELSE peak
    /\ hwm_hour' = hour
    /\ due' = Readers
    /\ fresh' = FALSE /\ done' = TRUE
    /\ pc' = "poll" /\ exposed' = AllEmpty /\ counted' = AllEmpty
    /\ stable' = AllEmpty /\ clean' = TRUE
    /\ UNCHANGED <<market, left, account_state, overlay, bounds>>

ManagerRestart ==
    /\ restarts < MaxRestarts /\ restarts' = restarts + 1
    /\ account_state' = [a \in Accounts |-> 0]
    /\ hwm' = 0 /\ hwm_hour' = 0 /\ peak' = 0
    /\ pc' = "poll" /\ left' = Accounts /\ exposed' = AllEmpty /\ counted' = AllEmpty
    /\ stable' = AllEmpty /\ clean' = TRUE
    /\ UNCHANGED <<market, bus, desks, fresh, done, changes, failed>>
-----------------------------------------------------------------------------
(* The desks and the market.                                                *)

\* The drain of risk_sub at the top of a desk's loop: the last overlay stays.
Receive(a) ==
    /\ a \in due
    /\ due' = due \ {a}
    /\ overlay' = [overlay EXCEPT ![a] = bus]
    /\ UNCHANGED <<market, reads, account_state, mark, day, stable, clean, bounds>>

\* A desk that restarts has no overlay, and none blocks; what was published before
\* it subscribed again is not repeated.
ReaderRestart(a) ==
    /\ restarts < MaxRestarts /\ restarts' = restarts + 1
    /\ overlay' = [overlay EXCEPT ![a] = NoOverlay]
    /\ due' = due \ {a}
    /\ UNCHANGED <<market, reads, account_state, mark, day, stable, clean, changes, failed>>

\* _check_risk_overlay.
Allowed(o, p, d) ==
    ~o.full /\ o.dd # "blocked" /\ <<p, d>> \notin o.crowded \cup o.exposing

Change == changes < MaxChanges /\ changes' = changes + 1

Open(a, p, d) ==
    /\ p \in Traded[a] /\ pos[a][p] = 0
    /\ a \in Readers => Allowed(overlay[a], p, d)
    /\ Change
    /\ pos' = [pos EXCEPT ![a][p] = d]
    /\ UNCHANGED <<nav, hour, reads, account_state, mark, desks, day, stable, clean>>
    /\ UNCHANGED <<failed, restarts>>

Close(a, p) ==
    /\ pos[a][p] # 0
    /\ Change
    /\ pos' = [pos EXCEPT ![a][p] = 0]
    /\ stable' = [stable EXCEPT ![a][p] = 0]
    /\ UNCHANGED <<nav, hour, reads, account_state, mark, desks, day, clean, failed, restarts>>

NavMoves(a) ==
    /\ Change
    /\ \E v \in Navs \ {nav[a]} : nav' = [nav EXCEPT ![a] = v]
    /\ UNCHANGED <<pos, hour, reads, account_state, mark, desks, day, stable, clean>>
    /\ UNCHANGED <<failed, restarts>>

NextHour ==
    /\ done \/ Stalls
    /\ hour' = (hour + 1) % Hours
    /\ done' = FALSE
    /\ fresh' = (fresh \/ hour' = 0)
    /\ UNCHANGED <<pos, nav, reads, account_state, mark, desks, peak, stable, clean, bounds>>
-----------------------------------------------------------------------------
Init ==
    /\ pos \in Starts /\ nav \in [Accounts -> {Max(Navs)}] /\ hour \in 0..Hours - 1
    /\ pc = "poll" /\ left = Accounts /\ exposed = AllEmpty /\ counted = AllEmpty
    /\ account_state = [a \in Accounts |-> 0]
    /\ hwm = 0 /\ hwm_hour = 0 /\ bus = NoOverlay
    /\ due = {} /\ overlay = [a \in Readers |-> NoOverlay]
    /\ peak = 0 /\ fresh = FALSE /\ done = FALSE
    /\ stable = AllEmpty /\ clean = TRUE
    /\ changes = 0 /\ failed = 0 /\ restarts = 0

Round == PollAccount \/ ReadExposure \/ ReadPositions \/ Publish

Next ==
    \/ Round \/ ManagerRestart
    \/ \E a \in Readers : Receive(a) \/ ReaderRestart(a)
    \/ \E a \in Accounts : NavMoves(a)
    \/ \E a \in Accounts, p \in Pairs : Close(a, p) \/ \E d \in Sides : Open(a, p, d)
    \/ NextHour

\* The manager's loop goes on, time passes, and a desk drains its socket.
Spec == Init /\ [][Next]_vars

Fairness == WF_vars(Round) /\ WF_vars(NextHour) /\ \A a \in Readers : WF_vars(Receive(a))

FairSpec == Spec /\ Fairness
-----------------------------------------------------------------------------
(* Properties.                                                              *)

Trades   == [Accounts -> [Pairs -> {-1, 0, 1}]]
Overlays == [crowded : SUBSET Keys, exposing : SUBSET Keys,
             dd : {"normal", "tapered", "blocked"}, full : BOOLEAN]

TypeOK ==
    /\ pos \in Trades /\ exposed \in Trades /\ counted \in Trades /\ stable \in Trades
    /\ nav \in [Accounts -> Navs] /\ account_state \in [Accounts -> Navs \cup {0}]
    /\ hour \in 0..Hours - 1 /\ hwm_hour \in 0..Hours - 1 /\ hwm \in Nat /\ peak \in Nat
    /\ pc \in {"poll", "exposure", "positions", "publish"}
    /\ left \subseteq Accounts /\ left # {}
    /\ bus \in Overlays /\ due \subseteq Readers /\ overlay \in [Readers -> Overlays]
    /\ fresh \in BOOLEAN /\ done \in BOOLEAN /\ clean \in BOOLEAN
    /\ changes \in 0..MaxChanges /\ failed \in 0..MaxFailed /\ restarts \in 0..MaxRestarts

\* The high-water mark is the best total NAV of the rounds since hour 0 or the start,
\* though it is only compared by the hour.
MarkIsTodays == hwm = peak

\* The step that ends a round.
Publishes == pc = "publish" /\ pc' = "poll" /\ restarts' = restarts

\* What enough accounts held throughout a round is blocked as concentrated by the
\* overlay the round ends with, however the reads of its two passes interleave with the trading.
HoldingsBlock ==
    [][Publishes /\ clean =>
         \A k \in Keys : Count(stable, k[1], k[2]) >= MaxConcentration => k \in bus'.crowded]_vars

\* No side that stays open would push a currency further out whose share of the total
\* NAV is above its cap by more than the half tenth of a percent the rounding hides.
ExposureContained ==
    [][Publishes =>
         \A k \in Keys \ (bus'.crowded \cup bus'.exposing), c \in Currencies :
            LET total  == TotalNav(account_state)
                e      == Exposure(exposed, c)
                after  == e + k[2] * (IF k[1].base = c THEN 1
                                      ELSE IF k[1].quote = c THEN -1 ELSE 0)
                excess == 100 * (Size(e) * Notional) - CurrencyCap[c] * total
            IN  20 * excess > total => after * after <= e * e]_vars

\* A drawdown block ends: the next day's mark is a new one.
ThrottleReleases == bus.dd = "blocked" ~> bus.dd # "blocked"

\* Once the accounts hold the maximum for good, every reader comes to know it and
\* enters no more, restarts and failed reads notwithstanding.
CapEnforced ==
    <>[](TotalPositions(pos) >= MaxPositions)
        => <>[](\A a \in Readers, k \in Keys : ~Allowed(overlay[a], k[1], k[2]))
=============================================================================
