------------------------------ MODULE Programs -----------------------------
(***************************************************************************)
(* The operator's programs, as the sequences of steps their main() runs.   *)
(* Scripts.tla says what each step does; a program may stop at any of them,*)
(* by process.exit, by an exception or by being killed.                    *)
(***************************************************************************)
EXTENDS Sequences

\* Module level of most scripts: which network, and whose wallet.
Start == <<"network", "seed">>

\* createWallet, waitForSyncedState, persistWalletState; the longer scripts
\* save checkpoints while they wait.
Wallet == <<"wallet", "persist">>
WalletCheckpointed == <<"wallet", "checkpoints", "persist">>

\* The wait for the faucet, the DUST registration and the proof server.
Prepare == <<"prepare">>

\* src/deploy.ts
Deploy ==
  Start \o <<"secret">> \o WalletCheckpointed \o Prepare
        \o <<"deploy", "record", "persist">>

\* src/setup.ts: deploy.ts in a child process, which it tells the network
\* unless that is the local devnet.
Setup == <<"activate", "network", "forward">> \o Deploy

\* Slip: the contract is recorded before its last circuits are inserted.
RecordedEarly ==
  Start \o <<"secret">> \o Wallet \o Prepare
        \o <<"deployStage1", "record", "insert", "persist">>

\* scripts/deploy-staged.ts
DeployStaged ==
  Start \o <<"secret">> \o Wallet \o Prepare
        \o <<"deployStage1", "insert", "record", "persist">>

\* src/deploy-tzkr.ts
DeployToken ==
  Start \o <<"secret">> \o WalletCheckpointed \o Prepare
        \o <<"deployToken", "recordToken", "persist">>

\* src/mint-tzkr.ts
MintToken ==
  Start \o <<"secret", "token">> \o Wallet
        \o <<"mint", "recordColor", "persist">>

\* src/cli.ts, which only reads the chain
Cli == Start \o <<"deployment">> \o Wallet \o <<"menu", "persist">>

\* src/check-balance.ts, src/check-dust-registration.ts
CheckBalance == Start \o WalletCheckpointed
CheckDust == Start \o Wallet

\* scripts/seed-treasury.ts
SeedTreasury ==
  Start \o <<"deployment", "color", "secret">> \o Wallet
        \o <<"depositNight", "depositToken", "persist">>

\* scripts/set-bootstrap-price.ts, a client of the matcher's admin routes
SetBootstrapPrice ==
  Start \o <<"color">> \o Wallet \o <<"challenge", "respond", "persist">>

\* scripts/e2e-check.ts: a deposit, a reservation released again, a withdrawal
CheckTreasury ==
  Start \o <<"deployment", "secret">> \o Wallet
        \o <<"depositNight", "administer", "administer", "withdraw">>

\* The other e2e scripts create orders and fill them, on their own or through
\* the matcher.  Their admin witness asks for the secret when a call wants it.
FindMarket == Start \o <<"deployment", "color">> \o Wallet
CheckTrade ==
  FindMarket \o <<"order", "order", "secret", "administer", "order", "persist">>
CheckSell == FindMarket \o <<"order", "secret", "administer", "persist">>
CheckOrder == FindMarket \o <<"order", "post", "persist">>
CheckBootstrap ==
  FindMarket \o <<"order", "post", "fill", "order", "match", "post", "persist">>
CheckLastPrice == FindMarket \o <<"order", "post", "fill", "persist">>

\* matcher/src/index.ts: its own seed comes from its own variable, or the file
Matcher ==
  <<"network", "deployment", "seed">> \o WalletCheckpointed
     \o <<"secret", "serve">>

\* package.json's scripts, by name.
Program ==
  [network |-> <<"activate">>, setup |-> Setup, deploy |-> Deploy,
   deployStaged |-> DeployStaged, deployToken |-> DeployToken,
   mintToken |-> MintToken, cli |-> Cli, checkBalance |-> CheckBalance,
   checkDust |-> CheckDust, seedTreasury |-> SeedTreasury,
   setBootstrapPrice |-> SetBootstrapPrice, checkTreasury |-> CheckTreasury,
   checkTrade |-> CheckTrade, checkSell |-> CheckSell,
   checkOrder |-> CheckOrder, checkBootstrap |-> CheckBootstrap,
   checkLastPrice |-> CheckLastPrice, matcher |-> Matcher]

ProgramNames == DOMAIN Program
=============================================================================
