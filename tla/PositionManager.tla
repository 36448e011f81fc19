-------------------------- MODULE PositionManager --------------------------
(***************************************************************************)
(* chronos::trading::PositionManager: one signed position per symbol with  *)
(* its average entry price and realized profit, the cached total that the  *)
(* risk checks read, and the file the positions are saved to.  A method    *)
(* holds the mutex from its first access to its return, so each is one     *)
(* step, except savePositions, which takes its snapshot under the mutex    *)
(* and writes the file without it: opening the file truncates it, and the  *)
(* process may die before the content is there.                            *)
(*                                                                         *)
(* Prices are in units of the last place of Decimal (a fixed point number  *)
(* with 32 fraction bits), quantities are whole numbers: products are then *)
(* exact, and only the quotient in calcWeightedAverage is rounded.         *)
(***************************************************************************)
EXTENDS Integers, FiniteSetsExt

CONSTANTS Symbols,
          Fills,      \* the fills reported: [symbol, side, price, qty]
          MaxFills    \* bound: fills applied

ASSUME FillsAssumption ==
    /\ \A f \in Fills : /\ f.symbol \in Symbols /\ f.side \in {"buy", "sell"}
                        /\ f.price \in Nat \ {0} /\ f.qty \in Nat
    /\ MaxFills \in Nat

VARIABLES positions,  \* positions_: a function on the symbols that have an entry
          total,      \* total_value_raw_
          file,       \* the snapshot in the file; none when there is no file, or it
                      \* has been opened for writing and its content is not there
          saving,     \* the snapshot savePositions is to write, if it is under way
          applied,    \* fills applied, for the bound
          ledger      \* history: net quantity, cash and rounding bound of the fills
                      \* that make up each position

vars == <<positions, total, file, saving, applied, ledger>>

NoPositions == [s \in {} |-> 0]
Blank == [net |-> 0, cash |-> 0, drift |-> 0]

Abs(x) == IF x < 0 THEN -x ELSE x
Signed(side, q) == IF side = "sell" THEN -q ELSE q

Init == /\ positions = NoPositions /\ total = 0
        /\ file = {} /\ saving = {}
        /\ applied = 0 /\ ledger = [s \in Symbols |-> Blank]

-----------------------------------------------------------------------------
(* updatePosition *)

\* fpm::fixed division: to the nearest, ties away from zero (n >= 0, d > 0)
RoundedDiv(n, d) == (2 * n + d) \div (2 * d)

CalcWeightedAverage(p, fill) ==
    RoundedDiv(Abs(p.qty) * p.avg + fill.qty * fill.price, Abs(p.qty) + fill.qty)

CalcRealizedPnLOnReduce(p, price, reduced) ==
    IF p.qty > 0 THEN reduced * (price - p.avg) ELSE reduced * (p.avg - price)

\* no entry: pnl is 0; a flat one: only realized_pnl is kept
Establish(pnl, fill) ==
    [qty |-> Signed(fill.side, fill.qty), avg |-> fill.price, pnl |-> pnl]

Increase(p, fill) ==
    [p EXCEPT !.qty = @ + Signed(fill.side, fill.qty), !.avg = CalcWeightedAverage(p, fill)]

Reduce(p, fill) ==
    LET q == p.qty + Signed(fill.side, fill.qty) IN
    [qty |-> q,
     avg |-> IF q = 0 THEN 0 ELSE p.avg,
     pnl |-> p.pnl + CalcRealizedPnLOnReduce(p, fill.price, fill.qty)]

\* mutant: the average price of the closed side is kept
Flip_KeepsAverage(p, fill) ==
    [qty |-> p.qty + Signed(fill.side, fill.qty), avg |-> p.avg,
     pnl |-> p.pnl + CalcRealizedPnLOnReduce(p, fill.price, Abs(p.qty))]

\* the old side is closed, what remains opens the other
Flip(p, fill) ==
    [qty |-> Signed(fill.side, fill.qty - Abs(p.qty)), avg |-> fill.price,
     pnl |-> p.pnl + CalcRealizedPnLOnReduce(p, fill.price, Abs(p.qty))]

SameDirection(p, fill) == (p.qty > 0) = (fill.side = "buy")

\* the position after a fill of its symbol
Updated(ps, fill) ==
    LET p == ps[fill.symbol]
        absent == fill.symbol \notin DOMAIN ps IN
    CASE absent                               -> Establish(0, fill)
      [] ~ absent /\ p.qty = 0               -> Establish(p.pnl, fill)
      [] ~ absent /\ p.qty # 0 /\ SameDirection(p, fill) -> Increase(p, fill)
      [] OTHER -> IF fill.qty <= Abs(p.qty) THEN Reduce(p, fill) ELSE Flip(p, fill)

\* recalcTotalValue
ValueOf(ps) == MapThenSumSet(LAMBDA s : Abs(ps[s].qty) * ps[s].avg, DOMAIN ps)

\* cash paid or earned, and the quantity whose average price the fill may round
\* by half a unit
Entered(l, fill) ==
    LET q == Signed(fill.side, fill.qty) IN
    [net |-> l.net + q, cash |-> l.cash - q * fill.price,
     drift |-> l.drift + (IF l.net * q > 0 THEN Abs(l.net + q) ELSE 0)]

\* a fill of quantity 0 is ignored
UpdatePosition(fill) ==
    /\ applied < MaxFills /\ applied' = applied + 1
    /\ IF fill.qty = 0 THEN UNCHANGED <<positions, total, ledger>>
       ELSE /\ positions' = [s \in DOMAIN positions \cup {fill.symbol} |->
                  IF s = fill.symbol THEN Updated(positions, fill) ELSE positions[s]]
            /\ total' = ValueOf(positions')
            /\ ledger' = [ledger EXCEPT ![fill.symbol] = Entered(@, fill)]
    /\ UNCHANGED <<file, saving>>

-----------------------------------------------------------------------------
(* clear, savePositions, loadPositions *)

\* mutant: the cached total is forgotten
Clear_KeepsTotal ==
    /\ positions' = NoPositions /\ ledger' = [s \in Symbols |-> Blank]
    /\ UNCHANGED <<total, file, saving, applied>>

Clear ==
    /\ positions' = NoPositions /\ total' = 0 /\ ledger' = [s \in Symbols |-> Blank]
    /\ UNCHANGED <<file, saving, applied>>

\* flat positions are skipped, and their realized profit with them
Open(ps) == {s \in DOMAIN ps : ps[s].qty # 0}

\* with the ledger of what it holds, as history
ToJson == [positions |-> [s \in Open(positions) |-> positions[s]],
           ledger |-> [s \in Symbols |-> IF s \in Open(positions) THEN ledger[s] ELSE Blank]]

\* the snapshot is taken, then opening the file truncates it
SaveOpen ==
    /\ saving = {}
    /\ saving' = {ToJson} /\ file' = {}
    /\ UNCHANGED <<positions, total, applied, ledger>>

SaveWrite ==
    /\ saving # {}
    /\ file' = saving /\ saving' = {}
    /\ UNCHANGED <<positions, total, applied, ledger>>

\* returns false, changing nothing, when there is no file or it does not parse
LoadPositions ==
    /\ \E j \in file : positions' = j.positions /\ ledger' = j.ledger
    /\ total' = ValueOf(positions')
    /\ UNCHANGED <<file, saving, applied>>

\* the process dies; the next one starts with no positions
Crash ==
    /\ positions' = NoPositions /\ total' = 0 /\ ledger' = [s \in Symbols |-> Blank]
    /\ saving' = {}
    /\ UNCHANGED <<file, applied>>

Next == \/ \E fill \in Fills : UpdatePosition(fill)
        \/ Clear \/ SaveOpen \/ SaveWrite \/ LoadPositions \/ Crash

Spec == Init /\ [][Next]_vars

-----------------------------------------------------------------------------
(* Properties *)

\* The entries are positions of known symbols, and a flat one has average price 0.
TypeOK ==
    /\ DOMAIN positions \subseteq Symbols
    /\ \A s \in DOMAIN positions :
          /\ positions[s].qty \in Int /\ positions[s].avg \in Nat /\ positions[s].pnl \in Int
          /\ positions[s].avg = 0 <=> positions[s].qty = 0
    /\ total \in Nat /\ applied \in 0 .. MaxFills

\* what getPosition's callers take an absent entry for
PositionOf(s) == IF s \in DOMAIN positions THEN positions[s] ELSE [qty |-> 0, avg |-> 0, pnl |-> 0]

\* Through opening, averaging, partial closing, closing, flipping, saving, crashing
\* and loading, a position accounts for every fill it is made of: its quantity is
\* their net quantity, and its realized profit less its cost is their cash, up to
\* half a unit for each unit of quantity an average was rounded over.
PositionsBalance ==
    \A s \in Symbols :
        LET p == PositionOf(s)  l == ledger[s] IN
        /\ p.qty = l.net
        /\ 2 * Abs(l.cash - (p.pnl - p.qty * p.avg)) <= l.drift

\* The total that checkOrder reads without the mutex is the value of the positions
\* after every operation, a load and a clear included.
CachedTotalIsCurrent == total = ValueOf(positions)
=============================================================================
