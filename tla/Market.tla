--------------------------------- MODULE Market ---------------------------------
(***************************************************************************)
(* The money and goods of characters: the bank (src/src/game/bank/         *)
(* bank.cpp), the market (src/src/game/game.cpp, src/src/io/iomarket.cpp)  *)
(* and the two places an account is kept in, the Player object of a        *)
(* character that is in the world or on the death screen, and its row in   *)
(* the database, which copies of characters that are away are loaded from  *)
(* and saved to at once.  Saves are synchronous (toggleSaveAsync = false). *)
(* Offers are of one kind of item, and live in the database.               *)
(***************************************************************************)
EXTENDS Integers, FiniteSets, FiniteSetsExt, Functions

CONSTANTS
    Chars,
    Ids,        \* bound of the model: the offers ever created
    Start,      \* the accounts at first
    Price,      \* of one item; offers differ in amount
    Fee,        \* taken for an offer
    Lots        \* bound of the model: the amounts asked for

ASSUME MarketAssumption ==
    /\ IsFiniteSet(Chars)
    /\ Start \in [Chars -> [cash : Nat, bank : Nat, goods : Nat]]
    /\ {Price, Fee} \subseteq Nat /\ Price > 0
    /\ Lots \subseteq Nat \ {0} /\ Ids \subseteq Nat

VARIABLES
    where,      \* "world", "dead" or "away"
    mem,        \* the account in the Player object, Nothing without one
    row,        \* the account in the database
    offers,     \* market_offers: [id, owner, side, amount],
                \* and old: past its time
    used,       \* ids given out
    query,      \* the query of checkExpiredOffers: "idle", "posted", "ready"
    result,     \* its result
    spent,      \* fees taken
    lost,       \* goods removed for an offer that then failed
    disturbed   \* an offer was given back by an outdated result, or a Player
                \* came back from the death screen after its row was changed

accountVars == <<where, mem, row>>
offerVars == <<offers, used>>
expiryVars == <<query, result>>
ghostVars == <<spent, lost, disturbed>>
vars == <<accountVars, offerVars, expiryVars, ghostVars>>

Nothing == [cash |-> 0, bank |-> 0, goods |-> 0]

Account == [cash : Nat, bank : Nat, goods : Nat]
Offer == [id : Ids, owner : Chars, side : {"buy", "sell"}, amount : Nat, old : BOOLEAN]

Init ==
    /\ where = [c \in Chars |-> "away"]
    /\ row = Start /\ mem = [c \in Chars |-> Nothing]
    /\ offers = {} /\ used = {} /\ query = "idle" /\ result = {}
    /\ spent = 0 /\ lost = 0 /\ disturbed = FALSE

---------------------------------------------------------------------------
(* Changes of accounts.                                                    *)

Bank(n) == [cash |-> 0, bank |-> n, goods |-> 0]
Items(n) == [cash |-> 0, bank |-> 0, goods |-> n]

Plus(a, d) == [f \in DOMAIN a |-> a[f] + d[f]]

(* removeMoney with useBalance: coins first, the rest from the bank.       *)
CoinsFirst(a, n) == LET k == Min({n, a.cash}) IN [cash |-> -k, bank |-> k - n, goods |-> 0]

(* The purchase of an offer: the bank first.                               *)
BankFirst(a, n) == LET k == Min({n, a.bank}) IN [cash |-> k - n, bank |-> -k, goods |-> 0]

Worth(a) == a.cash + a.bank

(* The change of the account of p, or of those of p and q, alone.          *)
For(p, d) == [c \in Chars |-> IF c = p THEN d ELSE Nothing]
ForBoth(p, d, q, e) == [c \in Chars |-> IF c = p THEN d ELSE IF c = q THEN e ELSE Nothing]

(* The accounts change by d: in the Player of a character in the world,    *)
(* which is saved for those of S only, or else in the row, through a copy  *)
(* (getPlayerByGUID, getPlayerByName with allowOffline) that is saved.     *)
Change(d, S) ==
    LET now(c) == Plus(mem[c], d[c])
    IN  /\ mem' = [c \in Chars |-> IF where[c] = "world" THEN now(c) ELSE mem[c]]
        /\ row' = [c \in Chars |-> IF where[c] # "world" THEN Plus(row[c], d[c])
                                   ELSE IF c \in S THEN now(c) ELSE row[c]]
        /\ UNCHANGED where

---------------------------------------------------------------------------
(* The bank.                                                               *)

Deposit(p, n) ==
    /\ where[p] = "world" /\ mem[p].cash >= n
    /\ Change(For(p, [cash |-> -n, bank |-> n, goods |-> 0]), {})
    /\ UNCHANGED <<offerVars, expiryVars, ghostVars>>

Withdraw(p, n) ==
    /\ where[p] = "world" /\ mem[p].bank >= n
    /\ Change(For(p, [cash |-> n, bank |-> -n, goods |-> 0]), {})
    /\ UNCHANGED <<offerVars, expiryVars, ghostVars>>

(* transferTo, to the Player or to a copy that ~Bank saves.                *)
TransferTo(p, q, n) ==
    /\ where[p] = "world" /\ p # q /\ mem[p].bank >= n
    /\ Change(ForBoth(p, Bank(-n), q, Bank(n)), {})
    /\ UNCHANGED <<offerVars, expiryVars, ghostVars>>

---------------------------------------------------------------------------
(* The market.                                                             *)

Insert(p, side, n) ==
    \E i \in Ids \ used :
        /\ \A j \in Ids \ used : i <= j
        /\ used' = used \cup {i}
        /\ offers' = offers \cup {[id |-> i, owner |-> p, side |-> side, amount |-> n,
                                     old |-> FALSE]}

CreateBuyOffer(p, n) ==
    LET cost == n * Price + Fee
    IN  /\ where[p] = "world" /\ Worth(mem[p]) >= cost
        /\ Change(For(p, CoinsFirst(mem[p], cost)), {p})
        /\ Insert(p, "buy", n)
        /\ spent' = spent + Fee
        /\ UNCHANGED <<expiryVars, lost, disturbed>>

CreateSellOffer(p, n) ==
    /\ where[p] = "world" /\ Worth(mem[p]) >= Fee /\ mem[p].goods >= n
    /\ Change(For(p, [CoinsFirst(mem[p], Fee) EXCEPT !.goods = -n]), {p})
    /\ Insert(p, "sell", n)
    /\ spent' = spent + Fee
    /\ UNCHANGED <<expiryVars, lost, disturbed>>

(* removeOfferItems of more than there is: what was found is gone, and the *)
(* offer is neither created nor accepted.                                  *)
RemoveOfferItemsFails(p, n) ==
    /\ where[p] = "world" /\ 0 < mem[p].goods /\ mem[p].goods < n
    /\ Worth(mem[p]) >= Fee \/ \E o \in offers : o.side = "buy" /\ o.owner # p /\ n <= o.amount
    /\ Change(For(p, Items(-mem[p].goods)), {})
    /\ lost' = lost + mem[p].goods
    /\ UNCHANGED <<offerVars, expiryVars, spent, disturbed>>

CancelOffer(p, o) ==
    /\ where[p] = "world" /\ o.owner = p
    /\ Change(For(p, IF o.side = "buy" THEN Bank(o.amount * Price) ELSE Items(o.amount)), {p})
    /\ offers' = offers \ {o}
    /\ UNCHANGED <<used, expiryVars, ghostVars>>

Take(o, n) ==
    offers' = (offers \ {o}) \cup (IF o.amount = n THEN {} ELSE {[o EXCEPT !.amount = @ - n]})

(* Bug: the copy of the buyer, who is away, is not saved.                  *)
AcceptBuyOfferUnsaved(p, o, n) ==
    /\ where[p] = "world" /\ o.side = "buy" /\ o.owner # p
    /\ n <= o.amount /\ n <= mem[p].goods
    /\ Change(ForBoth(p, [cash |-> 0, bank |-> n * Price, goods |-> -n],
                      o.owner, IF where[o.owner] = "world" THEN Items(n) ELSE Nothing), {p})
    /\ Take(o, n)
    /\ UNCHANGED <<used, expiryVars, ghostVars>>

AcceptBuyOffer(p, o, n) ==
    /\ where[p] = "world" /\ o.side = "buy" /\ o.owner # p
    /\ n <= o.amount /\ n <= mem[p].goods
    /\ Change(ForBoth(p, [cash |-> 0, bank |-> n * Price, goods |-> -n],
                      o.owner, Items(n)), {p})
    /\ Take(o, n)
    /\ UNCHANGED <<used, expiryVars, ghostVars>>

(* Bug: the price is compared with the bank balance only when it is taken. *)
AcceptSellOfferUnchecked(p, o, n) ==
    /\ where[p] = "world" /\ o.side = "sell" /\ o.owner # p /\ n <= o.amount
    /\ Change(ForBoth(p, [BankFirst(mem[p], n * Price) EXCEPT !.goods = n],
                      o.owner, Bank(n * Price)), {p})
    /\ Take(o, n)
    /\ UNCHANGED <<used, expiryVars, ghostVars>>

AcceptSellOffer(p, o, n) ==
    /\ where[p] = "world" /\ o.side = "sell" /\ o.owner # p
    /\ n <= o.amount /\ n * Price <= Worth(mem[p])
    /\ Change(ForBoth(p, [BankFirst(mem[p], n * Price) EXCEPT !.goods = n],
                      o.owner, Bank(n * Price)), {p})
    /\ Take(o, n)
    /\ UNCHANGED <<used, expiryVars, ghostVars>>

---------------------------------------------------------------------------
(* Offers past their time.                                                 *)

GrowOld ==
    /\ \E o \in offers : ~o.old /\ offers' = (offers \ {o}) \cup {[o EXCEPT !.old = TRUE]}
    /\ UNCHANGED <<accountVars, used, expiryVars, ghostVars>>

(* checkExpiredOffers, which schedules itself again.                       *)
CheckExpiredOffers ==
    /\ query = "idle"
    /\ query' = "posted"
    /\ UNCHANGED <<accountVars, offerVars, result, ghostVars>>

Select(S) ==
    /\ query = "posted"
    /\ query' = "ready"
    /\ result' = {o \in S : o.old}
    /\ UNCHANGED <<accountVars, offerVars, ghostVars>>

(* Bug: only offers of characters that are away are looked for.            *)
RunQueryAwayOnly == Select({o \in offers : where[o.owner] # "world"})

(* The pool thread runs the query and posts the callback.                  *)
RunQuery == Select(offers)

(* The rows of the result whose offer still exists: each is deleted and    *)
(* given back, in the amount that the result says.                         *)
Due == {r \in result : \E o \in offers : o.id = r.id}

Refund(c) ==
    LET of(side) == {r \in Due : r.owner = c /\ r.side = side}
        total(side) == MapThenSumSet(LAMBDA r : r.amount, of(side))
    IN  [cash |-> 0, bank |-> total("buy") * Price, goods |-> total("sell")]

Processed ==
    /\ query' = "idle" /\ result' = {}
    /\ offers' = {o \in offers : \A r \in Due : r.id # o.id}
    /\ disturbed' = ~(Due \subseteq offers)
    /\ UNCHANGED <<used, spent, lost>>

(* Bug: increaseBankBalance for characters in the world, too.              *)
ProcessExpiredOffersByRow ==
    /\ query = "ready"
    /\ row' = [c \in Chars |-> Plus(row[c], Refund(c))]
    /\ UNCHANGED <<where, mem>>
    /\ Processed

ProcessExpiredOffers ==
    /\ query = "ready"
    /\ Change([c \in Chars |-> Refund(c)], {})
    /\ Processed

---------------------------------------------------------------------------
(* The life of a character, as far as its account goes.                    *)

Login(p) ==
    /\ where[p] = "away"
    /\ where' = [where EXCEPT ![p] = "world"]
    /\ mem' = [mem EXCEPT ![p] = row[p]]
    /\ UNCHANGED <<row, offerVars, expiryVars, ghostVars>>

(* Logout, kick and death save the Player.                                 *)
LeaveWorld(p) ==
    /\ where[p] = "world"
    /\ row' = [row EXCEPT ![p] = mem[p]]
    /\ \/ where' = [where EXCEPT ![p] = "dead"] /\ UNCHANGED mem
       \/ where' = [where EXCEPT ![p] = "away"] /\ mem' = [mem EXCEPT ![p] = Nothing]
    /\ UNCHANGED <<offerVars, expiryVars, ghostVars>>

LeaveDeathScreen(p) ==
    /\ where[p] = "dead"
    /\ where' = [where EXCEPT ![p] = "away"]
    /\ mem' = [mem EXCEPT ![p] = Nothing]
    /\ UNCHANGED <<row, offerVars, expiryVars, ghostVars>>

(* The Player goes on with the account it died with.                       *)
Respawn(p) ==
    /\ where[p] = "dead"
    /\ where' = [where EXCEPT ![p] = "world"]
    /\ disturbed' = (mem[p] # row[p])
    /\ UNCHANGED <<mem, row, offerVars, expiryVars, spent, lost>>

Expiry == GrowOld \/ CheckExpiredOffers \/ RunQuery \/ ProcessExpiredOffers

Act(p) ==
    \/ \E n \in Lots :
        \/ Deposit(p, n) \/ Withdraw(p, n) \/ \E q \in Chars : TransferTo(p, q, n)
        \/ CreateBuyOffer(p, n) \/ CreateSellOffer(p, n) \/ RemoveOfferItemsFails(p, n)
        \/ \E o \in offers : AcceptBuyOffer(p, o, n) \/ AcceptSellOffer(p, o, n)
    \/ \E o \in offers : CancelOffer(p, o)
    \/ Login(p) \/ LeaveWorld(p) \/ LeaveDeathScreen(p) \/ Respawn(p)

(* An execution is followed until it is disturbed.                         *)
Next == ~disturbed /\ (Expiry \/ \E p \in Chars : Act(p))

Spec == Init /\ [][Next]_vars

(* The timer fires, the pool thread and the dispatcher run what is posted. *)
FairSpec ==
    /\ Spec
    /\ WF_vars(~disturbed /\ CheckExpiredOffers)
    /\ WF_vars(~disturbed /\ RunQuery)
    /\ WF_vars(~disturbed /\ ProcessExpiredOffers)

---------------------------------------------------------------------------
(* In particular no balance, amount of coins or of goods is ever negative  *)
(* (they are unsigned in the code).                                        *)
TypeOK ==
    /\ where \in [Chars -> {"world", "dead", "away"}]
    /\ mem \in [Chars -> Account] /\ row \in [Chars -> Account]
    /\ offers \subseteq Offer /\ result \subseteq Offer
    /\ used \subseteq Ids
    /\ query \in {"idle", "posted", "ready"}
    /\ {spent, lost} \subseteq Nat /\ disturbed \in BOOLEAN

Current(c) == IF where[c] = "world" THEN mem[c] ELSE row[c]

Held(side) == MapThenSumSet(LAMBDA o : o.amount, {o \in offers : o.side = side})

(* No money is made or lost by offers that are created, accepted in part,  *)
(* cancelled or expire, and by transfers, while their owners log in and    *)
(* out and die: it is in the accounts, in the offers to buy, or was a fee. *)
(* Excepted are an expired offer that was accepted in part after its query *)
(* ran, and a Player that respawns after its row was changed.              *)
MoneyKept ==
    disturbed \/
        SumFunction([c \in Chars |-> Worth(Current(c))]) + Held("buy") * Price + spent
            = SumFunction([c \in Chars |-> Worth(Start[c])])

(* Nor are goods cloned; they are lost only as the code says, when removing *)
(* them for an offer fails.                                                *)
GoodsKept ==
    disturbed \/
        SumFunction([c \in Chars |-> Current(c).goods]) + Held("sell") + lost
            = SumFunction([c \in Chars |-> Start[c].goods])

(* What an offer holds comes back: one past its time is given back by the  *)
(* check, unless it is accepted or cancelled before.                       *)
ExpiredIsReturned ==
    \A i \in Ids :
        (\E o \in offers : o.id = i /\ o.old) ~> disturbed \/ \A o \in offers : o.id # i

=================================================================================
