------------------------------ MODULE TwoBooks ------------------------------
(***************************************************************************)
(* The two order books on the same tape, as book_bench and                 *)
(* test_ladder_matches_stl run them: the price ladder and the tree book.   *)
(* The caller keeps, for each book, a stack of the ids of the orders that  *)
(* rested, and cancels the most recent one.  It never learns which of them *)
(* were filled since: the tree book gives every order a new id, the ladder *)
(* reuses the ids of orders that are gone, so an id on its stack may by    *)
(* now name somebody else's order.                                         *)
(*                                                                         *)
(* Each call is made to the ladder and then to the tree.  (book_bench runs *)
(* the whole tape on one and then on the other; the books share nothing.)  *)
(***************************************************************************)
EXTENDS Book, StlBook

VARIABLES
  live_l,    \* the caller's stack of the ladder's ids, the top last
  live_s,    \* the caller's stack of the tree's ids
  el, es     \* the fills of the call, from the ladder and from the tree

caller == <<live_l, live_s>>
bothVars == <<vars, stlVars, caller, el, es>>

Between == pc = "idle" /\ stlPc = "idle"
Fills(execs, exec) == Append(execs, [px |-> exec.px, qty |-> exec.qty])

BothInit ==
  /\ Init /\ StlInit
  /\ live_l = << >> /\ live_s = << >> /\ el = << >> /\ es = << >>
-----------------------------------------------------------------------------
(* limit with the same order on both books. *)
Submit(side, px, qty) ==
  /\ Between
  /\ Limit(side, px, qty) /\ StlLimit(side, px, qty)
  /\ UNCHANGED <<caller, el, es>>

LadderMatches ==
  /\ \/ (EnterLevel \/ LeaveLevel) /\ UNCHANGED el
     \/ TakeHead /\ el' = Fills(el, trade')
  /\ UNCHANGED <<stlVars, caller, es>>

(* The ladder's limit returns; an id is recorded if the order rests.       *)
LadderReturns ==
  /\ EndLimit
  /\ live_l' = IF remaining = 0 THEN live_l ELSE Append(live_l, taker_id)
  /\ UNCHANGED <<stlVars, live_s, el, es>>

TreeMatches ==
  /\ pc = "idle"
  /\ \/ (StlEnterLevel \/ StlLeaveLevel) /\ UNCHANGED es
     \/ TakeFront /\ es' = Fills(es, stlTrade')
  /\ UNCHANGED <<vars, caller, el>>

(* The tree's limit returns, and the caller has read the fills.            *)
TreeReturns ==
  /\ pc = "idle" /\ StlEndLimit
  /\ live_s' = IF stlRemaining = 0 THEN live_s ELSE Append(live_s, taker.id)
  /\ el' = << >> /\ es' = << >>
  /\ UNCHANGED <<vars, live_l>>

(* cancel(id) on both; false, and no change, for an id that does not rest. *)
CancelBoth(idL, idS) ==
  /\ Between
  /\ IF orders_[idL].qty # 0 THEN Cancel(idL) ELSE UNCHANGED vars
  /\ IF idS \in DOMAIN recs THEN StlCancel(idS) ELSE UNCHANGED stlVars
  /\ UNCHANGED <<el, es>>

(* Mutant: the caller cancels its oldest order first.                      *)
CancelFirst ==
  /\ live_l # << >> /\ live_s # << >>
  /\ CancelBoth(Head(live_l), Head(live_s))
  /\ live_l' = Tail(live_l) /\ live_s' = Tail(live_s)

(* id = live.back(); live.pop_back(); book.cancel(id) *)
CancelLast ==
  LET l == Len(live_l)
      s == Len(live_s)
  IN /\ l > 0 /\ s > 0
     /\ CancelBoth(live_l[l], live_s[s])
     /\ live_l' = SubSeq(live_l, 1, l - 1)
     /\ live_s' = SubSeq(live_s, 1, s - 1)

(* A caller that knows an order to rest may cancel it out of turn, as the  *)
(* other tests of test_book do, and forgets its id.                        *)
CancelResting ==
  \E k \in DOMAIN live_l \cap DOMAIN live_s :
    /\ live_s[k] \in DOMAIN recs
    /\ CancelBoth(live_l[k], live_s[k])
    /\ live_l' = SubSeq(live_l, 1, k - 1) \o SubSeq(live_l, k + 1, Len(live_l))
    /\ live_s' = SubSeq(live_s, 1, k - 1) \o SubSeq(live_s, k + 1, Len(live_s))

(* The tape is over.                                                       *)
TapeEnds == Between /\ next_id_ > Submits /\ live_l = << >> /\ UNCHANGED bothVars

BothNext ==
  \/ \E side \in Side, px \in Px, qty \in 1 .. MaxQty : Submit(side, px, qty)
  \/ LadderMatches \/ LadderReturns \/ TreeMatches \/ TreeReturns
  \/ CancelLast \/ CancelResting \/ TapeEnds

BothSpec == BothInit /\ [][BothNext]_bothVars
-----------------------------------------------------------------------------
(* "ladder and stl diverged - matching rules should be identical"          *)
(* (book_bench.cpp:114): the same fills in the same order (when the tree   *)
(* is about to return, the ladder having returned), an order that rests on *)
(* both or on neither, and after every call the same best prices, number   *)
(* of live orders and quantity at every price.                             *)
SameResults ==
  /\ pc = "idle" /\ stlPc = "match" /\ ~ StlCrossing =>
       /\ el = es
       /\ Len(live_l) = Len(live_s) + (IF stlRemaining = 0 THEN 0 ELSE 1)
  /\ Between =>
       /\ live_ = MaxOrders - Len(free_)
       /\ \A s \in Side :
            /\ best[s] = IF DOMAIN maps[s] = {} THEN 0 ELSE Begin(s)
            /\ \A p \in Px :
                 levels[s][p].qty % StlQtyMod =
                   IF p \in DOMAIN maps[s] THEN maps[s][p].qty ELSE 0

(* "Filled makers left on that stack fail cancel and are dropped"          *)
(* (README.md of the chapter): although the ladder reuses ids, an entry    *)
(* whose order rests names that order, and the entry on top, the next one  *)
(* to be cancelled, names a free slot if its order is gone.                *)
NoStaleHit ==
  Between =>
    \A k \in DOMAIN live_s :
      LET o == orders_[live_l[k]]
      IN IF live_s[k] \in DOMAIN recs
         THEN [px |-> o.px, qty |-> o.qty, side |-> o.side] = recs[live_s[k]]
         ELSE k = Len(live_s) => o.qty = 0
=============================================================================
