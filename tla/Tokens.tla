--------------------------------- MODULE Tokens ---------------------------------
(***************************************************************************)
(* TokensService (tokens.service.ts) with the rows NFTListing               *)
(* (nft-listing.entity.ts), NFTBid (nft-bid.entity.ts) and NFTSale          *)
(* (nft-sale.entity.ts): the token accounts of one mint on the chain, and   *)
(* the marketplace of the database.  The token operations are one call of   *)
(* the SPL token program each; the others take a step per awaited call.     *)
(*                                                                          *)
(*   holdings    per owner, the token account: its balance and flags        *)
(*   minted      what createNFTWithMetadata has done so far                 *)
(*   listings, bids, sales   the tables; a sale is counted at its bid       *)
(*   refused     the owners whose listing was refused while they held one   *)
(*   nftJob      per caller: the call it awaits next, and its copies        *)
(*   nftFaults, nftOverlaps, nftOps   as in Lending                         *)
(***************************************************************************)
EXTENDS Integers, FiniteSets, Sums

CONSTANTS Users, Owners,        \* concurrent requests; owners of token accounts
          Listings, Bids,       \* ids of rows
          Prices, MaxSupply, MaxNftFaults, MaxNftOps

ASSUME TokensAssumption ==
    /\ Listings # {} /\ Bids # {} /\ Prices \subseteq Nat
    /\ Owners # {} /\ IsFiniteSet(Owners) /\ MaxSupply \in Nat /\ MaxNftFaults \in Nat

VARIABLES holdings, minted, listings, refused, bids, sales, nftJob, nftFaults,
          nftOverlaps, nftOps

nftVars == <<holdings, minted, listings, refused, bids, sales, nftJob, nftFaults,
             nftOverlaps, nftOps>>

ListingStatus == {"none", "active", "sold", "cancelled", "expired"}

ListingType == {"fixed_price", "auction"}

BidStatus == {"none", "active", "accepted", "rejected", "cancelled", "outbid"}

\* The address of the mint.
Mint == "mint"

Addresses == Owners \cup {Mint}

NFTListing == [status : ListingStatus, type : ListingType, price : Int,
               nftMint : Addresses, seller : Addresses, ended : BOOLEAN]

NFTBid == [status : BidStatus, amount : Int, listing : Listings]

NFTSale == [Bids -> Nat]

NoListing == [status |-> "none", type |-> "auction", price |-> 0,
              nftMint |-> Mint, seller |-> Mint, ended |-> FALSE]

NoBid == [status |-> "none", amount |-> 0, listing |-> CHOOSE l \in Listings : TRUE]

NoAccount == [exists |-> FALSE, amount |-> 0, frozen |-> FALSE, delegated |-> FALSE]

NftIdle == [next |-> "idle", listing |-> CHOOSE l \in Listings : TRUE,
            bid |-> CHOOSE b \in Bids : TRUE, row |-> NoBid, offer |-> NoListing]

TokensTypeOK ==
    /\ \A o \in Owners : holdings[o].amount \in 0 .. MaxSupply
    /\ minted \in {"no", "mint", "account", "yes"}
    /\ listings \in [Listings -> NFTListing] /\ bids \in [Bids -> NFTBid]
    /\ sales \in NFTSale /\ refused \subseteq Owners
    /\ \A c \in Users : nftJob[c].next \in {"idle", "saveListing", "highest", "outbid",
         "saveBid", "loadBid", "saveSale", "markSold", "markAccepted", "rejectOthers",
         "cancelListing", "cancelBids"}
    /\ nftFaults \in 0 .. MaxNftFaults /\ nftOverlaps \in BOOLEAN

TokensInit ==
    /\ holdings = [o \in Owners |-> NoAccount] /\ minted = "no"
    /\ listings = [l \in Listings |-> NoListing] /\ refused = {}
    /\ bids = [b \in Bids |-> NoBid]
    /\ sales = [b \in Bids |-> 0]
    /\ nftJob = [c \in Users |-> NftIdle]
    /\ nftFaults = 0 /\ nftOverlaps = FALSE /\ nftOps = 0

-----------------------------------------------------------------------------
(* The token program.  An instruction it refuses changes nothing.           *)

tables == <<listings, refused, bids, sales, nftJob, nftFaults, nftOverlaps>>

Supply == Total([o \in Owners |-> holdings[o].amount])

OnChain(new) ==
    /\ nftOps' = nftOps + 1
    /\ holdings' = new
    /\ UNCHANGED <<minted, tables>>

\* The one whose mint is examined.
Creator == CHOOSE o \in Owners : TRUE

\* createNFTWithMetadata: the mint, the creator's account, one token; the mint
\* keeps its authority.  createTokenMint is its first step.
CreateNFTWithMetadata ==
    /\ \/ /\ minted = "no" /\ minted' = "mint" /\ UNCHANGED holdings
       \/ /\ minted = "mint" /\ minted' = "account"
          /\ holdings' = [holdings EXCEPT ![Creator].exists = TRUE]
       \/ /\ minted = "account" /\ holdings[Creator].exists
          /\ ~holdings[Creator].frozen /\ minted' = "yes"
          /\ Supply < MaxSupply
          /\ holdings' = [holdings EXCEPT ![Creator].amount = @ + 1]
    /\ UNCHANGED <<tables, nftOps>>

\* The bound MaxSupply stands for 2^64 - 1.
MintTokens(recipient) ==
    /\ minted # "no" /\ Supply < MaxSupply /\ ~holdings[recipient].frozen
    /\ OnChain([holdings EXCEPT ![recipient].exists = TRUE, ![recipient].amount = @ + 1])

BurnTokens(o) ==
    /\ holdings[o].amount > 0 /\ ~holdings[o].frozen
    /\ OnChain([holdings EXCEPT ![o].amount = @ - 1])

GetOrCreateATA(o) ==
    /\ minted # "no" /\ ~holdings[o].exists
    /\ OnChain([holdings EXCEPT ![o].exists = TRUE])

CloseTokenAccount(o) ==
    /\ holdings[o].exists /\ holdings[o].amount = 0 /\ ~holdings[o].frozen
    /\ OnChain([holdings EXCEPT ![o] = NoAccount])

FreezeTokenAccount(o) ==
    /\ holdings[o].exists /\ ~holdings[o].frozen
    /\ OnChain([holdings EXCEPT ![o].frozen = TRUE])

ThawTokenAccount(o) ==
    /\ holdings[o].frozen /\ OnChain([holdings EXCEPT ![o].frozen = FALSE])

DelegateTokenAccount(o) ==
    /\ holdings[o].exists /\ ~holdings[o].frozen
    /\ OnChain([holdings EXCEPT ![o].delegated = TRUE])

ApproveTokenSpending(o) == DelegateTokenAccount(o)

RevokeTokenDelegation(o) ==
    /\ holdings[o].exists /\ OnChain([holdings EXCEPT ![o].delegated = FALSE])

RevokeTokenApproval(o) == RevokeTokenDelegation(o)

\* The account of the recipient is made when it is missing.
TransferNFT(o, recipient) ==
    /\ o # recipient /\ holdings[o].amount > 0
    /\ ~holdings[o].frozen /\ ~holdings[recipient].frozen
    /\ OnChain([holdings EXCEPT ![o].amount = @ - 1, ![recipient].amount = @ + 1,
                                 ![recipient].exists = TRUE])

-----------------------------------------------------------------------------
(* The marketplace                                                          *)

NftBegin(c, job) ==
    /\ nftJob[c].next = "idle"
    /\ nftJob' = [nftJob EXCEPT ![c] = job]
    /\ nftOverlaps' = (nftOverlaps \/ \E d \in Users : nftJob[d].next # "idle")
    /\ nftOps' = nftOps + 1
    /\ UNCHANGED <<holdings, minted, listings, refused, bids, sales, nftFaults>>

\* The awaited call is done, or rejected, which ends the request.
NftStep(c, step, write, next) ==
    /\ nftJob[c].next = step
    /\ \/ /\ write /\ UNCHANGED nftFaults
          /\ nftJob' = [nftJob EXCEPT ![c] = IF next = "idle" THEN NftIdle
                                             ELSE [@ EXCEPT !.next = next]]
       \/ /\ nftFaults' = nftFaults + 1 /\ UNCHANGED <<listings, bids, sales>>
          /\ nftJob' = [nftJob EXCEPT ![c] = NftIdle]
    /\ UNCHANGED <<holdings, minted, refused, nftOverlaps, nftOps>>

SetListing(l, status) ==
    listings' = [listings EXCEPT ![l].status = status] /\ UNCHANGED <<bids, sales>>

\* One UPDATE over the active bids of a listing.
SetActiveBids(l, status) ==
    /\ bids' = [b \in Bids |-> IF bids[b].listing = l /\ bids[b].status = "active"
                               THEN [bids[b] EXCEPT !.status = status] ELSE bids[b]]
    /\ UNCHANGED <<listings, sales>>

\* A balance of one of what has to be a mint; that it is an NFT is not asked.
VerifyNFTOwnership(owner, mint) ==
    mint = Mint /\ owner \in Owners /\ holdings[owner].amount = 1

\* The check is handed the two addresses the other way round: it passes for a
\* client that names its wallet as the mint and the mint as the seller.
CreateNFTListing(c) ==
    \E l \in Listings, nftMint, seller \in Addresses :
        /\ listings[l] = NoListing /\ VerifyNFTOwnership(nftMint, seller)
        /\ \A d \in Users : nftJob[d].next = "saveListing" => nftJob[d].listing # l
        /\ \E type \in ListingType, price \in Prices :
             NftBegin(c, [NftIdle EXCEPT !.next = "saveListing", !.listing = l,
               !.offer = [status |-> "active", type |-> type, price |-> price,
                          nftMint |-> nftMint, seller |-> seller, ended |-> FALSE]])

\* An owner's request that names both as they are, thrown out.
RefuseListing ==
    /\ \E o \in Owners :
         /\ holdings[o].amount = 1 /\ ~VerifyNFTOwnership(Mint, o)
         /\ refused' = refused \cup {o}
    /\ nftOps' = nftOps + 1
    /\ UNCHANGED <<holdings, minted, listings, bids, sales, nftJob, nftFaults, nftOverlaps>>

SaveListing(c) ==
    NftStep(c, "saveListing",
            listings' = [listings EXCEPT ![nftJob[c].listing] = nftJob[c].offer]
              /\ UNCHANGED <<bids, sales>>, "idle")

\* The time of an auction runs out.
AuctionEnds ==
    /\ \E l \in Listings : /\ listings[l].type = "auction" /\ listings[l].status = "active"
                           /\ listings' = [listings EXCEPT ![l].ended = TRUE]
    /\ UNCHANGED <<holdings, minted, refused, bids, sales, nftJob, nftFaults, nftOverlaps,
                   nftOps>>

PlaceBid(c) ==
    \E l \in Listings, b \in Bids, amount \in Prices :
        LET listing == listings[l]
        IN  /\ bids[b] = NoBid /\ \A d \in Users : nftJob[d].next # "idle"
                                                    => nftJob[d].bid # b
            /\ listing.status = "active"
            /\ IF listing.type = "auction" THEN ~listing.ended ELSE amount >= listing.price
            /\ NftBegin(c, [NftIdle EXCEPT !.listing = l, !.bid = b,
                 !.next = IF listing.type = "auction" THEN "highest" ELSE "saveBid",
                 !.row = [status |-> "active", amount |-> amount, listing |-> l]])

ActiveBids(l) == {b \in Bids : bids[b].listing = l /\ bids[b].status = "active"}

\* Mutant: an equal bid will do.
HigherThanAllOrEqual(amount, l) == \A b \in ActiveBids(l) : amount >= bids[b].amount

HigherThanAll(amount, l) == \A b \in ActiveBids(l) : amount > bids[b].amount

HighestBid(c) ==
    LET job == nftJob[c]
        next == IF HigherThanAll(job.row.amount, job.listing) THEN "outbid" ELSE "idle"
    IN  NftStep(c, "highest", UNCHANGED <<listings, bids, sales>>, next)

MarkOutbid(c) ==
    NftStep(c, "outbid", SetActiveBids(nftJob[c].listing, "outbid"), "saveBid")

SaveBid(c) ==
    NftStep(c, "saveBid",
            bids' = [bids EXCEPT ![nftJob[c].bid] = nftJob[c].row]
              /\ UNCHANGED <<listings, sales>>, "idle")

\* The listing must exist; its status is not looked at.
AcceptBid(c) ==
    \E b \in Bids : /\ listings[bids[b].listing].status # "none" /\ bids[b] # NoBid
                    /\ NftBegin(c, [NftIdle EXCEPT !.next = "loadBid", !.bid = b,
                                                   !.listing = bids[b].listing])

LoadBid(c) ==
    NftStep(c, "loadBid", UNCHANGED <<listings, bids, sales>>,
            IF bids[nftJob[c].bid].status = "active" THEN "saveSale" ELSE "idle")

SaveSale(c) ==
    NftStep(c, "saveSale", /\ sales' = [sales EXCEPT ![nftJob[c].bid] = @ + 1]
                           /\ UNCHANGED <<listings, bids>>, "markSold")

MarkSold(c) == NftStep(c, "markSold", SetListing(nftJob[c].listing, "sold"), "markAccepted")

MarkAccepted(c) ==
    NftStep(c, "markAccepted",
            bids' = [bids EXCEPT ![nftJob[c].bid].status = "accepted"]
              /\ UNCHANGED <<listings, sales>>, "rejectOthers")

RejectOthers(c) ==
    NftStep(c, "rejectOthers", SetActiveBids(nftJob[c].listing, "rejected"), "idle")

CancelListing(c) ==
    \E l \in Listings :
        /\ listings[l].status = "active"
        /\ NftBegin(c, [NftIdle EXCEPT !.next = "cancelListing", !.listing = l])

MarkCancelled(c) ==
    NftStep(c, "cancelListing", SetListing(nftJob[c].listing, "cancelled"), "cancelBids")

CancelBids(c) ==
    NftStep(c, "cancelBids", SetActiveBids(nftJob[c].listing, "cancelled"), "idle")

TokensStep ==
    \/ CreateNFTWithMetadata
    \/ \E o \in Owners :
         \/ MintTokens(o) \/ BurnTokens(o)
         \/ GetOrCreateATA(o) \/ CloseTokenAccount(o) \/ FreezeTokenAccount(o)
         \/ ThawTokenAccount(o) \/ DelegateTokenAccount(o) \/ ApproveTokenSpending(o)
         \/ RevokeTokenDelegation(o) \/ RevokeTokenApproval(o)
         \/ \E recipient \in Owners : TransferNFT(o, recipient)
    \/ AuctionEnds \/ RefuseListing
    \/ \E c \in Users :
         \/ CreateNFTListing(c) \/ SaveListing(c) \/ PlaceBid(c) \/ HighestBid(c)
         \/ MarkOutbid(c) \/ SaveBid(c) \/ AcceptBid(c) \/ LoadBid(c) \/ SaveSale(c)
         \/ MarkSold(c) \/ MarkAccepted(c) \/ RejectOthers(c) \/ CancelListing(c)
         \/ MarkCancelled(c) \/ CancelBids(c)

\* Bounds as in Lending.
TokensNext ==
    /\ TokensStep
    /\ nftOps' <= MaxNftOps /\ nftFaults' <= MaxNftFaults
    /\ nftOverlaps' => nftFaults' = 0

-----------------------------------------------------------------------------

SoldBids(l) == {b \in Bids : bids[b].listing = l /\ sales[b] > 0}

\* Whatever overlaps and fails, only a listing with a sale is sold.  One request
\* at a time and without faults a listing is sold once, a closed one has no active
\* bid, and an auction has one active bid at most, higher than all outbid ones.
OneSalePerListing ==
    \A l \in Listings :
        /\ listings[l].status = "sold" => SoldBids(l) # {}
        /\ (~nftOverlaps /\ nftFaults = 0 /\ \A c \in Users : nftJob[c].next = "idle") =>
             /\ SoldBids(l) # {} => listings[l].status = "sold"
             /\ \A b, other \in SoldBids(l) : b = other /\ sales[b] = 1
             /\ ActiveBids(l) # {} => listings[l].status = "active"
             /\ listings[l].type = "auction" =>
                  \A b, other \in Bids :
                    bids[b].status = "active" /\ bids[other].status \in {"active", "outbid"}
                      /\ bids[b].listing = l /\ bids[other].listing = l /\ b # other
                    => bids[b].amount > bids[other].amount

\* createNFTListing checks what its comment calls "Verify NFT ownership"
\* (tokens.service.ts:759): so it refuses no listing whose seller holds the NFT.
OwnersMayList == refused = {}
=============================================================================
