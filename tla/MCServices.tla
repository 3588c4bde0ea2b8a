------------------------------- MODULE MCServices -------------------------------
(* The services around the escrows: lending pools, DEX pools, tokens with their *)
(* NFT listings, gas meters, the marketplaces of other parties, MPC wallets,   *)
(* signing, smart accounts, authentication, the RPC endpoints, events with      *)
(* their subscriptions, and the caches of the accounts.  They share no rows; a *)
(* behaviour examines one of them, chosen at the start.                        *)
EXTENDS Pools, Tokens, GasMetering, NftMarketplaceCpi, Mpc, Signing, SmartAccounts, Auth,
        Network, Events, Caches, TLC

VARIABLE examined

Services == {"lending", "dex", "tokens", "gas", "deals", "mpc", "signing", "smart", "auth",
             "network", "events", "caches"}

programVars == <<lendVars, dexVars, nftVars, gasVars, answers>>

accountVars == <<mpcVars, signingVars, smartVars, authVars>>

platformVars == <<netVars, eventVars, cacheVars>>

\* The endpoints of networkConfigs, the mainnet left out.
DevAndTest == [n \in {"devnet", "testnet"} |-> IF n = "devnet" THEN 2 ELSE 1]

\* Refunds arrive as negative amounts.
SpentAndRefunded == {-1, 1, 2}

\* Concurrent requests of a service are alike.
Symmetry == Permutations(Lenders)

Init ==
    /\ examined \in Services
    /\ LendingInit /\ DexInit /\ TokensInit /\ GasInit /\ DealInit
    /\ MpcInit /\ SigningInit /\ SmartInit /\ AuthInit
    /\ NetInit /\ EventsInit /\ CachesInit

ProgramsNext ==
    \/ /\ examined = "lending" /\ LendingNext
       /\ UNCHANGED <<examined, dexVars, nftVars, gasVars, answers>>
    \/ /\ examined = "dex" /\ DexNext
       /\ UNCHANGED <<examined, lendVars, nftVars, gasVars, answers>>
    \/ /\ examined = "tokens" /\ TokensNext
       /\ UNCHANGED <<examined, lendVars, dexVars, gasVars, answers>>
    \/ /\ examined = "gas" /\ GasNext
       /\ UNCHANGED <<examined, lendVars, dexVars, nftVars, answers>>
    \/ /\ examined = "deals" /\ DealNext
       /\ UNCHANGED <<examined, lendVars, dexVars, nftVars, gasVars>>

AccountsNext ==
    \/ /\ examined = "mpc" /\ MpcNext
       /\ UNCHANGED <<examined, signingVars, smartVars, authVars>>
    \/ /\ examined = "signing" /\ SigningNext
       /\ UNCHANGED <<examined, mpcVars, smartVars, authVars>>
    \/ /\ examined = "smart" /\ SmartNext
       /\ UNCHANGED <<examined, mpcVars, signingVars, authVars>>
    \/ /\ examined = "auth" /\ AuthNext
       /\ UNCHANGED <<examined, mpcVars, signingVars, smartVars>>

PlatformNext ==
    \/ examined = "network" /\ NetNext /\ UNCHANGED <<examined, eventVars, cacheVars>>
    \/ examined = "events" /\ EventsNext /\ UNCHANGED <<examined, netVars, cacheVars>>
    \/ examined = "caches" /\ CachesNext /\ UNCHANGED <<examined, netVars, eventVars>>

Next ==
    \/ ProgramsNext /\ UNCHANGED <<accountVars, platformVars>>
    \/ AccountsNext /\ UNCHANGED <<programVars, platformVars>>
    \/ PlatformNext /\ UNCHANGED <<programVars, accountVars>>

\* The rows and the requests under way have their types.
TypeOK ==
    /\ LendingTypeOK /\ DexTypeOK /\ TokensTypeOK /\ GasTypeOK /\ DealTypeOK
    /\ MpcTypeOK /\ SigningTypeOK /\ SmartTypeOK /\ AuthTypeOK
    /\ NetTypeOK /\ EventsTypeOK /\ CachesTypeOK
=============================================================================
