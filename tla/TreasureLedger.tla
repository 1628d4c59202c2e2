--------------------------- MODULE TreasureLedger ---------------------------
(***************************************************************************)
(* What CryptoTreasure promises, with each transaction one step.           *)
(*                                                                         *)
(* There are no calls, callbacks, loops or reverts here: a transaction     *)
(* that succeeds stores, withdraws, transfers, destroys or mints, once,    *)
(* and moves exactly the units it says.  While it runs its callbacks may   *)
(* have changed who is entitled to a box, its lock and its restriction, as *)
(* far as a lock that stood when the transaction began allows (Settings).  *)
(***************************************************************************)
EXTENDS Integers, FiniteSets

CONSTANTS Account, Self, Asset, Box

Holder == Account \cup {Self}

VARIABLES
    contents,       \* [Box -> [Asset -> units]]
    owed,           \* the tokens each box's mint locked and destroying it frees
    bank,           \* [Asset -> [Holder -> units]]
    entitled,       \* who may act for each box; nobody until it is minted
    closed,         \* boxes that only take what the entitled store
    lockedUntil,    \* end of each box's time lock
    due,            \* the date from which each box may be destroyed
    destroyed,      \* destroyed boxes
    now

vars == <<contents, owed, bank, entitled, closed, lockedUntil, due, destroyed, now>>

Nothing == [a \in Asset |-> 0]
Minted(b) == entitled[b] # {}
Unlocked(b) == lockedUntil[b] <= now

\* What a box gains and what it loses in a step.
Gain(b) == [a \in Asset |-> contents'[b][a] - contents[b][a]]
Loss(b) == [a \in Asset |-> contents[b][a] - contents'[b][a]]
Positive(m) == \A a \in Asset : m[a] >= 0

\* The balances once x has given y the units m.
Given(bk, x, y, m) ==
    [a \in Asset |-> IF x = y THEN bk[a] ELSE
        [bk[a] EXCEPT ![x] = @ - m[a], ![y] = @ + m[a]]]

OnlyContentsOf(S) == \A b \in Box \ S : contents'[b] = contents[b]

\* What callbacks may have changed during a transaction that mints New.
Settings(New) ==
    \A b \in Box :
        /\ entitled'[b] # {} <=> (entitled[b] # {} \/ b \in New)
        /\ ~Unlocked(b) \/ ~(Minted(b) \/ b \in New) =>
              /\ lockedUntil'[b] = lockedUntil[b]
              /\ b \in closed' <=> b \in closed

Store(x, b) ==
    /\ Minted(b) /\ b \notin destroyed /\ Unlocked(b)
    /\ b \in closed => x \in entitled[b]
    /\ Positive(Gain(b)) /\ OnlyContentsOf({b})
    /\ bank' = Given(bank, x, Self, Gain(b))
    /\ Settings({})
    /\ UNCHANGED <<owed, due, destroyed, now>>

Withdraw(x, b, to) ==
    /\ x \in entitled[b] /\ Unlocked(b)
    /\ Positive(Loss(b)) /\ OnlyContentsOf({b})
    /\ bank' = Given(bank, Self, to, Loss(b))
    /\ Settings({})
    /\ UNCHANGED <<owed, due, destroyed, now>>

Transfer(x, src, dest) ==
    /\ x \in entitled[src] /\ Unlocked(src)
    /\ Minted(dest) /\ dest \notin destroyed /\ Unlocked(dest)
    /\ dest \in closed => x \in entitled[dest]
    /\ Positive(Loss(src)) /\ OnlyContentsOf({src, dest})
    /\ Gain(dest) = IF src = dest THEN Nothing ELSE Loss(src)
    /\ Settings({})
    /\ UNCHANGED <<owed, bank, due, destroyed, now>>

\* The contents go to the payee, the lock to someone who owned the box.
Destroy(x, b, to, heir) ==
    /\ x \in entitled[b] /\ Unlocked(b)
    /\ b \notin destroyed /\ due[b] <= now
    /\ destroyed' = destroyed \cup {b}
    /\ Positive(Loss(b)) /\ OnlyContentsOf({b})
    /\ owed' = [owed EXCEPT ![b] = Nothing]
    /\ bank' = Given(Given(bank, Self, to, Loss(b)), Self, heir, owed[b])
    /\ Settings({})
    /\ UNCHANGED <<due, now>>

\* All new boxes get the same terms, and the minter pays for each.
Mint(x, New) ==
    /\ New # {}
    /\ \A b \in New : ~Minted(b)
    /\ \A b \in Box \ New : owed'[b] = owed[b] /\ due'[b] = due[b]
    /\ \A b, c \in New :
          /\ owed'[b] = owed'[c] /\ due'[b] = due'[c]
          /\ b \in closed' <=> c \in closed'
    /\ \A b \in New :
          bank' = Given(bank, x, Self,
                        [a \in Asset |-> Cardinality(New) * owed'[b][a]])
    /\ Settings(New)
    /\ UNCHANGED <<contents, destroyed, now>>

\* Approvals, sales, locks, restrictions.
Configure ==
    /\ Settings({})
    /\ UNCHANGED <<contents, owed, bank, due, destroyed, now>>

\* Tokens the contract is sent and told nothing of.
Receive(x, a) ==
    /\ bank' = [bank EXCEPT ![a][x] = @ - 1, ![a][Self] = @ + 1]
    /\ UNCHANGED <<contents, owed, entitled, closed, lockedUntil, due, destroyed, now>>

Wait ==
    /\ now' > now
    /\ UNCHANGED <<contents, owed, bank, entitled, closed, lockedUntil, due, destroyed>>

Init ==
    /\ contents = [b \in Box |-> Nothing]
    /\ owed = [b \in Box |-> Nothing]
    /\ \A a \in Asset : bank[a][Self] = 0
    /\ entitled = [b \in Box |-> {}]
    /\ closed = {} /\ destroyed = {}
    /\ lockedUntil = [b \in Box |-> 0] /\ due = [b \in Box |-> 0]
    /\ now = 0

Next ==
    \/ \E x \in Account, b \in Box :
          \/ Store(x, b)
          \/ \E to \in Holder : Withdraw(x, b, to)
          \/ \E dest \in Box : Transfer(x, b, dest)
          \/ \E to, heir \in Holder : Destroy(x, b, to, heir)
    \/ \E x \in Account, New \in SUBSET Box : Mint(x, New)
    \/ Configure
    \/ \E x \in Account, a \in Asset : Receive(x, a)
    \/ Wait

Spec == Init /\ [][Next]_vars
=============================================================================
