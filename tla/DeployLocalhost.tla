--------------------------- MODULE DeployLocalhost ---------------------------
(***************************************************************************)
(* script/deploy-localhost.ts against a node.  The script awaits one       *)
(* request after another: a transaction is sent and answered, not waited   *)
(* for, except a deployment, which deployed() waits for.  The node mines   *)
(* in nonce order, at once (automine) or whenever it likes.  A request can *)
(* fail, whether or not the node has acted on it; the script then ends,    *)
(* and may be started again.                                               *)
(***************************************************************************)
EXTENDS Integers, SequencesExt

CONSTANT MaxRuns        \* starts of the script (bound)

ASSUME DeployAssumption == MaxRuns \in Nat \ {0}

VARIABLES
    automine,       \* the node mines a transaction as it comes
    run,            \* number of the script's run, 0 before the first
    pc,             \* its next step
    waiting,        \* it is in deployed()
    ended, exitCode,
    refused,        \* a request of this run failed
    sent,           \* transactions the node took, <<run, step>>, by nonce
    mined           \* how many of them are mined

vars == <<automine, run, pc, waiting, ended, exitCode, refused, sent, mined>>

-----------------------------------------------------------------------------
(* The steps of main().  Amounts of REQ and DAI are in units of 10^29. *)

None == "none"

Deploy(name, needs) == [op |-> "deploy", name |-> name, needs |-> needs]
Call(fn, to, who, what) ==
    [op |-> "call", fn |-> fn, needs |-> {to}, to |-> to, who |-> who, what |-> what]
Transfer(token, user) == Call("transfer", token, user, 1)
Mints(nft, user, ids) ==
    [i \in DOMAIN ids |-> Call("mint", nft, user, ids[i])]
MintBatch(token, user, ids) == Call("mintBatch", token, user, ids)
AddType(id, from, to, token, reserved) ==
    [Call("addType", "cryptoTreasure", None,
          [id |-> id, from |-> from, to |-> to, reserved |-> reserved])
        EXCEPT !.needs = @ \cup token]
Read(token, user) == [op |-> "read", needs |-> {token}, to |-> token, who |-> user]

Deployments ==
    <<Deploy("reqToken", {}), Deploy("boxBase", {}),
      Deploy("cryptoTreasure", {"boxBase"}), Deploy("daiToken", {}),
      Deploy("meebits", {}), Deploy("cryptoPunk", {}),
      Deploy("erc1155Mock1", {}), Deploy("erc1155Mock2", {}),
      Deploy("erc20key", {"cryptoTreasure"})>>

Transfers ==
    <<Transfer("reqToken", "user1"), Transfer("reqToken", "user2"),
      Transfer("daiToken", "user1"), Transfer("daiToken", "user2")>>

TokenMints ==
    Mints("cryptoPunk", "user1", <<1, 2, 3, 4>>)
    \o Mints("cryptoPunk", "user2", <<5, 6, 7, 8>>)
    \o Mints("meebits", "user1", <<10, 11, 12, 13>>)
    \o Mints("meebits", "user2", <<14, 15, 16, 17>>)
    \o <<MintBatch("erc1155Mock1", "user1", {<<111, 1000>>, <<112, 2000>>}),
         MintBatch("erc1155Mock1", "user2", {<<113, 3000>>, <<114, 4000>>}),
         MintBatch("erc1155Mock2", "user1", {<<221, 1000>>, <<222, 2000>>}),
         MintBatch("erc1155Mock2", "user2", {<<223, 3000>>, <<224, 4000>>})>>

Types ==
    <<AddType(1, 10, 999, {}, 0), AddType(2, 1000, 9999, {"reqToken"}, 0),
      AddType(3, 10000, 99999, {}, 0), AddType(4, 100000, 999999, {"erc20key"}, 50)>>

Reads ==
    <<Read("reqToken", "user1"), Read("reqToken", "user2"),
      Read("daiToken", "user1"), Read("daiToken", "user2")>>

Script == Deployments \o Transfers \o TokenMints \o Types \o Reads

\* The types the summary lists; it is written by hand, not read back.
Listed ==
    {[id |-> 1, from |-> 10, to |-> 999], [id |-> 2, from |-> 1000, to |-> 9999],
     [id |-> 3, from |-> 10000, to |-> 99999], [id |-> 2, from |-> 100000, to |-> 999999]}

-----------------------------------------------------------------------------
(* The node.  A run's contracts are its own: every run deploys afresh. *)

\* The steps of this run that took effect.
Done == {sent[k][2] : k \in {k \in 1..mined : sent[k][1] = run}}
Standing == {Script[i].name : i \in {i \in Done : Script[i].op = "deploy"}}
AddedTypes ==
    {Script[i].what : i \in {i \in Done : Script[i].op = "call" /\ Script[i].fn = "addType"}}

\* An id a mint or a type has already, and a type without room (e13, e14,
\* e21), are refused; the steps before i are mined before it.
Reverts(i) ==
    LET step == Script[i]
        same(j) == /\ Script[j].op = "call"
                   /\ Script[j].fn = step.fn /\ Script[j].to = step.to
    IN  /\ step.op = "call"
        /\ \/ /\ step.fn = "mint"
              /\ \E j \in 1..(i - 1) : same(j) /\ Script[j].what = step.what
           \/ /\ step.fn = "addType"
              /\ \/ \E j \in 1..(i - 1) : same(j) /\ Script[j].what.id = step.what.id
                 \/ step.what.from >= step.what.to
                 \/ step.what.reserved > step.what.to - step.what.from + 1

Accept ==
    /\ sent' = Append(sent, <<run, pc>>)
    /\ mined' = IF automine THEN Len(sent') ELSE mined

Mine ==
    /\ mined < Len(sent)
    /\ mined' = mined + 1
    /\ UNCHANGED <<automine, run, pc, waiting, ended, exitCode, refused, sent>>

-----------------------------------------------------------------------------
(* The script *)

Init ==
    /\ automine \in BOOLEAN
    /\ run = 0 /\ pc = 1 /\ waiting = FALSE /\ ended = TRUE /\ exitCode = 0
    /\ refused = FALSE /\ sent = <<>> /\ mined = 0

AtStep(op) == ~ended /\ ~waiting /\ pc <= Len(Script) /\ Script[pc].op = op

\* Mutant: the error is printed and no exit code set.
Catch_Prints == ended' = TRUE /\ exitCode' = 0

\* main().catch: whatever throws ends the script with 1.
Catch == ended' = TRUE /\ exitCode' = 1

\* A node that mines at once throws when the transaction reverts.
SendCall ==
    /\ AtStep("call")
    /\ Accept
    /\ IF automine /\ Reverts(pc)
       THEN Catch /\ UNCHANGED pc
       ELSE pc' = pc + 1 /\ UNCHANGED <<ended, exitCode>>
    /\ UNCHANGED <<automine, run, waiting, refused>>

SendDeploy ==
    /\ AtStep("deploy")
    /\ Accept
    /\ waiting' = TRUE
    /\ UNCHANGED <<automine, run, pc, ended, exitCode, refused>>

\* Mutant: a block on top of the deployment's is asked for.
Confirmed_ByNext == mined > Len(sent)
\* Mutant: the address is used as soon as it is known.
Confirmed_AtOnce == TRUE

Confirmed == mined = Len(sent)

Deployed ==
    /\ waiting /\ Confirmed /\ ~ended
    /\ waiting' = FALSE /\ pc' = pc + 1
    /\ UNCHANGED <<automine, run, ended, exitCode, refused, sent, mined>>

\* A balance for the summary, which ends with the script.
ReadBalance ==
    /\ AtStep("read")
    /\ pc' = pc + 1
    /\ ended' = (pc = Len(Script))
    /\ UNCHANGED <<automine, run, waiting, exitCode, refused, sent, mined>>

\* A request gets an error for an answer; the node may have taken it.
RequestFails ==
    /\ ~ended /\ Catch
    /\ refused' = TRUE
    /\ \/ ~waiting /\ Script[pc].op # "read" /\ Accept
       \/ UNCHANGED <<sent, mined>>
    /\ UNCHANGED <<automine, run, pc, waiting>>

Start ==
    /\ ended /\ run < MaxRuns
    /\ run' = run + 1 /\ pc' = 1 /\ waiting' = FALSE /\ ended' = FALSE
    /\ exitCode' = 0 /\ refused' = FALSE
    /\ UNCHANGED <<automine, sent, mined>>

Next ==
    \/ Mine \/ SendCall \/ SendDeploy \/ Deployed \/ ReadBalance
    \/ RequestFails \/ Start

\* The node goes on mining and answering, and the script takes the answers.
Fairness ==
    /\ WF_vars(Mine) /\ WF_vars(SendCall) /\ WF_vars(SendDeploy)
    /\ WF_vars(Deployed) /\ WF_vars(ReadBalance)

Spec == Init /\ [][Next]_vars /\ Fairness

-----------------------------------------------------------------------------
(* Properties *)

\* A transaction goes to a contract that stands already, and names only such
\* contracts: every `await ....deployed()` comes in time, also when mining lags.
SentToStanding ==
    [][Len(sent') > Len(sent) => Script[pc].needs \subseteq Standing]_vars

\* Exit code 0 means that every transaction of the run was taken, once and in
\* order, whatever became of earlier runs; 1 that one was not or an answer was
\* lost (main().catch).
ExitCodeTells ==
    ended /\ run > 0 =>
        LET mine == SelectSeq(sent, LAMBDA t : t[1] = run)
            n == Len(Script) - Len(Reads)
        IN  IF refused THEN exitCode = 1
            ELSE exitCode = 0 => mine = [i \in 1..n |-> <<run, i>>]

\* Unless a request fails, a run ends with exit code 0: no wait for a
\* deployment is for ever, and no call of the script is one that reverts.
Finishes == ~ended ~> (ended /\ (exitCode = 0 \/ refused))

\* "1 Key treasure: id 2 => [100000, 999999]" (deploy-localhost.ts:186): when
\* the script has printed its summary and all it sent is mined, the types the
\* summary lists are those of the contract.
SummaryListsTypes ==
    ended /\ run > 0 /\ exitCode = 0 /\ mined = Len(sent) =>
        Listed = {[id |-> t.id, from |-> t.from, to |-> t.to] : t \in AddedTypes}
=============================================================================
