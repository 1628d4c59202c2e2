----------------------------- MODULE MCScripts -----------------------------
(* One of the two scripts, chosen once: utils.ts, writing the data of one  *)
(* call in words of four binary digits and addresses of two, or            *)
(* deploy-localhost.ts.                                                    *)
EXTENDS TypeData, DeployLocalhost

CONSTANT Scripts    \* those to choose from: "utils", "deploy"

VARIABLE script

mcVars == <<dataVars, vars, script>>

\* What the other script's variables are does not matter.
InitScript ==
    /\ DataInit /\ Init /\ script \in Scripts
    /\ script = "utils" => automine
    /\ script = "deploy" => arguments = CHOOSE a \in AddTypeArguments : TRUE
NextScript ==
    /\ \/ script = "utils" /\ DataNext /\ UNCHANGED vars
       \/ script = "deploy" /\ Next /\ UNCHANGED dataVars
    /\ UNCHANGED script

\* Fairness is DeployLocalhost's; of its actions none is enabled for utils.ts.
FairSpec == InitScript /\ [][NextScript]_mcVars /\ Fairness

Numbers == {0, 1, 6, 15}
SomeTypes ==
    [fn : {"addType"}, addressErc20ToLock : 0..3, amountToLock : Numbers,
     durationLockDestroy : Numbers, mintingDurationLock : Numbers,
     numberReserved : {0, 1, 15, 16}]
SomeMints == [fn : {"safeMint"}, typeId : 0..15, restriction : BOOLEAN]
SomeMintsByType == [fn : {"safeMintByType"}, restriction : BOOLEAN]
NoArguments == {}
Junk == {<<1, 0>>, <<0, 1, 1, 1>>}
=============================================================================
