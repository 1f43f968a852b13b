---------------------------- MODULE MCOperations ---------------------------
(* Scenes of the operator's work for TLC: what may meet what. *)
EXTENDS Operations, TLC

CONSTANTS p1, p2, p3

L(program, flag, env, retries) ==
  [program |-> program, flag |-> flag, env |-> env, retries |-> retries]
On(program) == L(program, "preprod", {}, 0)
Active(program) == L(program, NoNetwork, {}, 0)
Retried(program) == L(program, "preprod", {}, 1)

MCNetworks == {"preprod", "undeployed"}
MCCircuits == {"settle", "mint"}
MCFailures == {{}, {"dust"}}
MCSymmetry == Permutations({p1, p2, p3})

\* On a fresh machine, then beside a deployment.
MCScenes ==
  [deployed: {NoNetwork}, wanting: {{}},
   agenda: {{On("deploy"), On("deployStaged")}, {Retried("deployStaged")},
            {On("deployStaged"), On("deployToken")},
            {On("deployToken"), On("mintToken")},
            {L("setup", "preprod", {}, 0), L("network", "undeployed", {}, 0)},
            {L("setup", NoNetwork, {}, 0), L("deploy", "preprod", {"seed"}, 0)}}]
  \cup
  [deployed: {"preprod"}, wanting: {{}},
   agenda: {{Retried("deployToken"), On("mintToken")},
            {On("deploy"), On("seedTreasury")},
            {On("matcher"), On("setBootstrapPrice"), Active("setBootstrapPrice")},
            {Retried("matcher"), Retried("setBootstrapPrice")},
            {On("matcher"), On("checkBootstrap")},
            {L("matcher", "preprod", {"seed"}, 0), On("cli")},
            {L("checkBalance", "preprod", {"seed"}, 0), On("checkDust")},
            {On("checkTreasury")}, {On("checkTrade")}, {On("checkSell")},
            {On("checkOrder")}, {On("checkLastPrice")}}]
  \cup
  [deployed: {"preprod"}, wanting: {{"sell", "sell2"}, {"buy", "sell"}},
   agenda: {{On("matcher")}}]

\* A buyer of two tokens and sellers of one and of two, in a treasury of ten
\* tokens and the NIGHT for two.  994 is within the 995 that is bid for a token
\* at 1000 when nothing is reserved, and not within what is bid once something
\* is (991 when two are).
MCWant ==
  [buy |-> [side |-> "BUY", price |-> 1100, amount |-> 2],
   sell |-> [side |-> "SELL", price |-> 994, amount |-> 1],
   sell2 |-> [side |-> "SELL", price |-> 900, amount |-> 2]]
\* Where the floating-point product of PricingEngine.ts falls short.
MCRoundedDown == {1450, 2850, 2900, 5650, 5700, 5750, 5800}
=============================================================================
