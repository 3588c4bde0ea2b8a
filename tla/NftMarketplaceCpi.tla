-------------------------- MODULE NftMarketplaceCpi --------------------------
(***************************************************************************)
(* NFTMarketplaceCpiService (cpi/nft-marketplace-cpi.service.ts) as the      *)
(* controller (cpi.controller.ts) calls it: deals on the marketplaces of    *)
(* other parties.  Each operation builds the instruction of the marketplace *)
(* and hands it with the user's key to sendProgramInvocation, which needs   *)
(* every account to be a key.                                               *)
(*                                                                          *)
(*   answers   the requests answered and the answer: the marketplace is     *)
(*             unsupported, the instruction failed before it was sent, or   *)
(*             it was sent                                                  *)
(***************************************************************************)
EXTENDS Naturals, FiniteSets

CONSTANTS Keys,                 \* users' keys
          MaxAnswers

VARIABLES answers

MarketplaceProgram == {"MAGIC_EDEN", "TENSOR", "HYPERSPACE"}

Operations == {"list", "bid", "sale", "cancel", "update"}

\* key signs; auctionHouse says whether the client names one.
DealRequest == [op : Operations, marketplace : MarketplaceProgram, key : Keys,
                auctionHouse : BOOLEAN]

DealTypeOK == answers \subseteq DealRequest \X {"unsupported", "failed", "sent"}

DealInit == answers = {}

-----------------------------------------------------------------------------
(* The accounts of an instruction that matter: those that sign, NoAccount   *)
(* where an address is left empty, and NoHouse where the default auction    *)
(* house is used, which is a byte short of a key.                           *)

Supported(marketplace) == marketplace \in {"MAGIC_EDEN", "TENSOR"}

House(q) == IF q.marketplace = "MAGIC_EDEN" /\ ~q.auctionHouse THEN {"NoHouse"} ELSE {}


\* The controller passes seller or bidder as '': "Will be derived from private key".
Party(q) == "NoAccount"

\* seller, nftMint and, on Magic Eden, auctionHouse.
BuildListingInstruction(q) == [signers |-> {Party(q)}, others |-> House(q)]

BuildBidInstruction(q) == [signers |-> {Party(q)}, others |-> House(q)]

\* The buyer need not sign.
BuildSaleInstruction(q) == [signers |-> {Party(q)}, others |-> House(q)]

\* "Will be set by caller": no caller does.
BuildCancelInstruction(q) == [signers |-> {"NoAccount"}, others |-> House(q)]

BuildUpdateInstruction(q) == [signers |-> {"NoAccount"}, others |-> House(q)]

BuildInstruction(q) ==
    CASE q.op = "list" -> BuildListingInstruction(q)
      [] q.op = "bid" -> BuildBidInstruction(q)
      [] q.op = "sale" -> BuildSaleInstruction(q)
      [] q.op = "cancel" -> BuildCancelInstruction(q)
      [] q.op = "update" -> BuildUpdateInstruction(q)

\* Every account is a key, and the only one that signs is the user's.
Sendable(q, i) == i.others = {} /\ i.signers \subseteq {q.key}

Answer(q) ==
    IF ~Supported(q.marketplace) THEN "unsupported"
    ELSE IF Sendable(q, BuildInstruction(q)) THEN "sent" ELSE "failed"

-----------------------------------------------------------------------------
(* Operations                                                               *)

Ask(op) == \E q \in DealRequest : q.op = op /\ answers' = answers \cup {<<q, Answer(q)>>}

ListNFTOnMarketplace == Ask("list")

PlaceBidOnMarketplace == Ask("bid")

ExecuteNFTSale == Ask("sale")

CancelNFTListing == Ask("cancel")

UpdateNFTListing == Ask("update")

DealNext ==
    /\ \/ ListNFTOnMarketplace \/ PlaceBidOnMarketplace \/ ExecuteNFTSale
       \/ CancelNFTListing \/ UpdateNFTListing
    /\ Cardinality(answers') <= MaxAnswers

-----------------------------------------------------------------------------

=============================================================================
