-------------------------------- MODULE MCRewards --------------------------------
(***************************************************************************)
(* Small instances of Rewards: Rewards.cfg is for the schemes of one user, *)
(* Rewards_rebate.cfg for the team rebate, in a chain of four, longer than *)
(* the two layers that are paid, and two levels.                           *)
(***************************************************************************)
EXTENDS Rewards

CONSTANTS u1, u2, g1, g2, chief, agent, player, novice

MCUsers == {u1, u2}
MCGifts == {g1, g2}
MCInviteRules == {[minDeposit |-> 1, spinChances |-> 1], [minDeposit |-> 3, spinChances |-> 1]}
MCLuckyRules == {{[minDeposit |-> 1, spinChances |-> 1]},
                 {[minDeposit |-> 1, spinChances |-> 1], [minDeposit |-> 2, spinChances |-> 2]}}
MCVipLevels == {1, 2}
MCRequires == {[l \in {1, 2} |-> l], [l \in {1, 2} |-> l + 1]}
MCSlabs == <<[reward |-> 3, direct |-> 1, active |-> 0, teamDeposit |-> 1],
             [reward |-> 5, direct |-> 1, active |-> 1, teamDeposit |-> 2]>>
MCTeams ==
  {[direct |-> 0, active |-> 1, teamDeposit |-> 2],
   [direct |-> 1, active |-> 1, teamDeposit |-> 2],
   [direct |-> 1, active |-> 2, teamDeposit |-> 2]}

MCMembers == {chief, agent, player, novice}
Line == (chief :> Nobody) @@ (agent :> chief) @@ (player :> agent) @@ (novice :> player)
MCTrees == {Line}
NoDemo == {{}}
MCDemos == {{}, {player}}
MCStaff == {chief}
MCNewcomers == {novice}
MCRates == (0 :> <<1, 0>>) @@ (1 :> <<2, 1>>)
MCRequirements == 1 :> [teamSize |-> 0, teamBetting |-> 1, teamDeposit |-> 1]

================================================================================
