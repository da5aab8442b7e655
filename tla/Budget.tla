------------------------------- MODULE Budget -------------------------------
(***************************************************************************)
(* Performance isolation: every guest has one budget of cycles per         *)
(* fast-path core.  The control plane refills it (control_budget_refresh), *)
(* reading the counter and adding to it in two atomic accesses; the core   *)
(* subtracts what the guest used (fast_budg_charge) at any time, also      *)
(* between the two.                                                        *)
(***************************************************************************)
EXTENDS Integers

CONSTANTS
  MaxGuests,  \* CHAMELIO_MAX_GUESTS
  NCores,     \* config->fp_cores_max
  Cap,        \* budget_cap, in cycles
  MaxCreds,   \* bound: the most that one refresh gives to a guest
  MaxCyc,     \* bound: the most that one visit of a core costs
  MaxDebt     \* bound: no budget is charged below minus this

ASSUME BudgetAssumption ==
  /\ MaxGuests \in Nat
  /\ NCores \in Nat \ {0}
  /\ Cap \in Nat
  /\ MaxCreds \in Nat
  /\ MaxCyc \in Nat
  /\ MaxDebt \in Nat

VARIABLES
  nr,         \* control_context.n_guests
  val,        \* guests[i].budgets[j].val
  ref,        \* where the refresh is: idle, or before a load or an add
  gi, cj,     \* i and j of its loops
  creds,      \* creds_add
  budg        \* budg, as loaded

refVars == <<ref, gi, cj, creds, budg>>
budgetVars == <<nr, val, ref, gi, cj, creds, budg>>

GuestIds == 0 .. MaxGuests - 1
CoreIds == 0 .. NCores - 1

\* Mutant of budget_share: one core too many gets a part of the remainder.
Bug_share_off_by_one(total, idx) ==
  total \div NCores + (IF idx <= total % NCores THEN 1 ELSE 0)

\* The part of total that is core idx's.
budget_share(total, idx) ==
  total \div NCores + (IF idx < total % NCores THEN 1 ELSE 0)

BudgetInit ==
  /\ nr = 0
  /\ val = [g \in GuestIds |-> [j \in CoreIds |-> 0]]
  /\ ref = "idle" /\ gi = 0 /\ cj = 0 /\ creds = 0 /\ budg = 0

\* A guest registers and starts with a full budget (the control plane's
\* thread, so never in the middle of a refresh).
NewGuestBudget ==
  /\ ref = "idle"
  /\ nr < MaxGuests
  /\ val' = [val EXCEPT ![nr] = [j \in CoreIds |-> budget_share(Cap, j)]]
  /\ nr' = nr + 1
  /\ UNCHANGED refVars

\* The cycles since the last refresh are turned into credits.
RefreshStart ==
  /\ ref = "idle"
  /\ nr > 0
  /\ ref' = "load" /\ gi' = 0 /\ cj' = 0
  /\ creds' \in 0 .. MaxCreds
  /\ UNCHANGED <<nr, val, budg>>

\* __atomic_load_n of the counter.
RefreshLoad ==
  /\ ref = "load"
  /\ budg' = val[gi][cj]
  /\ ref' = "add"
  /\ UNCHANGED <<nr, val, gi, cj, creds>>

\* Mutant of guest_add: what is added is not limited to what fits.
Bug_add_no_cap(b, cap, add) ==
  IF b >= cap THEN 0 ELSE add

\* What is added to a budget b: no more than fits.
guest_add(b, cap, add) ==
  IF b >= cap THEN 0
  ELSE IF b > cap - add THEN cap - b
  ELSE add

\* What this refresh adds to the budget it has loaded.
Added == guest_add(budg, budget_share(Cap, cj), budget_share(creds, cj))

\* The loops over guests and cores go on; after the last, the refresh is over
\* and its locals are gone.
RefreshNext ==
  \/ /\ cj + 1 < NCores
     /\ ref' = "load" /\ cj' = cj + 1
     /\ UNCHANGED <<gi, creds>>
  \/ /\ cj + 1 >= NCores /\ gi + 1 < nr
     /\ ref' = "load" /\ gi' = gi + 1 /\ cj' = 0
     /\ UNCHANGED creds
  \/ /\ cj + 1 >= NCores /\ gi + 1 >= nr
     /\ ref' = "idle" /\ gi' = 0 /\ cj' = 0 /\ creds' = 0

\* Mutant of RefreshAdd: the sum is stored, not added.
Bug_store ==
  /\ ref = "add"
  /\ val' = [val EXCEPT ![gi][cj] = budg + Added]
  /\ RefreshNext
  /\ budg' = 0
  /\ UNCHANGED nr

\* __atomic_fetch_add.
RefreshAdd ==
  /\ ref = "add"
  /\ val' = [val EXCEPT ![gi][cj] = @ + Added]
  /\ RefreshNext
  /\ budg' = 0
  /\ UNCHANGED nr

\* Core j has spent cyc cycles on guest g: fast_budg_charge.
Charge(g, j, cyc) ==
  /\ g < nr
  /\ val[g][j] - cyc >= -MaxDebt
  /\ val' = [val EXCEPT ![g][j] = @ - cyc]
  /\ UNCHANGED <<nr, refVars>>

Control == NewGuestBudget \/ RefreshStart \/ RefreshLoad \/ RefreshAdd

BudgetNext ==
  \/ Control
  \/ \E g \in GuestIds, j \in CoreIds, cyc \in 0 .. MaxCyc : Charge(g, j, cyc)

BudgetSpec == BudgetInit /\ [][BudgetNext]_budgetVars

-----------------------------------------------------------------------------
(* Properties *)

\* No budget exceeds its core's share of the cap, although the refresh adds
\* to a counter that it read before: a core that charges in between only
\* makes the sum smaller.
BelowCap ==
  \A g \in GuestIds, j \in CoreIds :
    g < nr => val[g][j] <= budget_share(Cap, j)

\* A refresh never undoes a charge: whatever cores charge while it runs, a
\* step raises a budget by no more than its share of this refresh's credits.
ChargesKept ==
  [][\A g \in GuestIds, j \in CoreIds :
       g < nr => val'[g][j] <= val[g][j] + budget_share(creds, j)]_budgetVars

BudgetTypeOK ==
  /\ nr \in 0 .. MaxGuests
  /\ val \in [GuestIds -> [CoreIds -> Int]]
  /\ ref \in {"idle", "load", "add"}
  /\ gi \in Nat /\ cj \in Nat /\ creds \in Nat /\ budg \in Int

\* Between the two accesses of a refresh, the budget it read is at least the
\* budget there is now.
ReadIsHigher ==
  /\ ref # "idle" => gi < nr /\ cj < NCores
  /\ ref = "add" => val[gi][cj] <= budg

BudgetInv == BudgetTypeOK /\ ReadIsHigher /\ BelowCap
=============================================================================
