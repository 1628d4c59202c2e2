------------------------------- MODULE MCKey -------------------------------
(* The cryptotreasure, the deployer and a player. *)
EXTENDS ERC20Key

CONSTANTS player

SomeGrants ==
    {<<player, deployer>>, <<player, cryptotreasure>>, <<deployer, deployer>>,
     <<player, Zero>>}
SomeLists ==
    {<<<<player, deployer>>, <<1, 2>>>>, <<<<player, player>>, <<1, 1, 3>>>>,
     <<<<player, Zero>>, <<1, 1>>>>, <<<<player, deployer>>, <<1>>>>, <<<<>>, <<1>>>>}
=============================================================================
