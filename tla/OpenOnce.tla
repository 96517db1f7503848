------------------------------ MODULE OpenOnce ------------------------------
(***************************************************************************)
(* What opening a pack promises, with no request, lock or transaction in   *)
(* sight: an openId is opened at most once, by one member, for one         *)
(* template; that one step takes the price from the balance, writes the    *)
(* ledger row and mints the pack.  The only other way a balance moves here *)
(* is an administrator's grant.  PackOpening implements this.              *)
(***************************************************************************)
EXTENDS Integers

CONSTANTS Users, Templates, OpenIds, Grants, Amounts, Packs, None

VARIABLES
    opening,     \* the pack_openings row of each openId, or None
    currency,    \* users.currency
    ledger,      \* the currency_transactions rows
    inventory    \* how many of each pack a member has been given

vars == <<opening, currency, ledger, inventory>>

Entry(u, type, ref, n) == [userId |-> u, type |-> type, refId |-> ref, amount |-> n]

Init ==
    /\ opening = [id \in OpenIds |-> None]
    /\ currency = [u \in Users |-> 0]
    /\ ledger = {}
    /\ inventory = [u \in Users |-> [p \in Packs |-> 0]]

Open(id, u, t, p) ==
    /\ opening[id] = None
    /\ opening' = [opening EXCEPT ![id] = [userId |-> u, templateId |-> t, pack |-> p]]
    /\ \E cost \in 0 .. currency[u] :
          /\ currency' = [currency EXCEPT ![u] = @ - cost]
          /\ ledger' = ledger \cup {Entry(u, "PACK_SPEND", id, 0 - cost)}
    /\ inventory' = [inventory EXCEPT ![u][p] = @ + 1]

Grant(u, g, n) ==
    /\ \A e \in ledger : ~(e.userId = u /\ e.type = "GRANT" /\ e.refId = g)
    /\ currency[u] + n >= 0
    /\ currency' = [currency EXCEPT ![u] = @ + n]
    /\ ledger' = ledger \cup {Entry(u, "GRANT", g, n)}
    /\ UNCHANGED <<opening, inventory>>

Next ==
    \/ \E id \in OpenIds, u \in Users, t \in Templates, p \in Packs : Open(id, u, t, p)
    \/ \E u \in Users, g \in Grants, n \in Amounts : Grant(u, g, n)

Spec == Init /\ [][Next]_vars
=============================================================================
