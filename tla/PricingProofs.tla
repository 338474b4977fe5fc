---------------------------- MODULE PricingProofs ----------------------------
(***************************************************************************)
(* Proofs about Pricing, for any contacts, partners and quotes: which price *)
(* a page may show rests on the contact book (one contact per partner) and  *)
(* on what the page's two queries have found.                               *)
(***************************************************************************)
EXTENDS Pricing, TLAPS

(***************************************************************************)
(* The contact book                                                         *)
(***************************************************************************)

BookTypeOK == contact \in [Contacts -> Row]

\* A partner business is linked to one contact at most, archived ones included.
OneContactPerPartner ==
  \A c, d \in Contacts : contact[c].link = contact[d].link /\ contact[c].link # NoLink => c = d

BookInv == BookTypeOK /\ OneContactPerPartner

\* The empty book has the invariant.
LEMMA BookStarts == ContactsInit => BookInv
  BY DEF ContactsInit, BookInv, BookTypeOK, OneContactPerPartner, Row

\* A change of one contact keeps the invariant: the link it takes is free.
LEMMA BookStep ==
  ASSUME BookInv, NEW c \in Contacts, ContactStep(c)
  PROVE  BookInv'
<1>1. ASSUME NEW b \in Partners \cup {NoLink}, AddContact(c, b) \/ EditContact(c, b)
      PROVE  BookInv'
  <2>1. BookTypeOK'
    BY <1>1 DEF BookInv, BookTypeOK, AddContact, EditContact, Row
  <2>2. /\ contact'[c].link = b
        /\ \A d \in Contacts \ {c} : contact'[d].link = contact[d].link
    BY <1>1 DEF BookInv, BookTypeOK, AddContact, EditContact, Row
  <2>3. LinkFree(c, b)
    BY <1>1 DEF AddContact, EditContact
  <2>4. OneContactPerPartner'
    BY <2>2, <2>3 DEF BookInv, OneContactPerPartner, LinkFree
  <2> QED BY <2>1, <2>4 DEF BookInv
<1>2. ASSUME ArchiveContact(c) \/ RestoreContact(c)
      PROVE  BookInv'
  <2>1. BookTypeOK'
    BY <1>2 DEF BookInv, BookTypeOK, ArchiveContact, RestoreContact, Row
  <2>2. \A d \in Contacts : contact'[d].link = contact[d].link
    BY <1>2 DEF BookInv, BookTypeOK, ArchiveContact, RestoreContact, Row
  <2> QED BY <2>1, <2>2 DEF BookInv, OneContactPerPartner
<1> QED BY <1>1, <1>2 DEF ContactStep

(***************************************************************************)
(* Types                                                                    *)
(***************************************************************************)

\* What the steps keep of the types; torn follows from Watch by itself.
Typed ==
  /\ BookInv
  /\ tiers \subseteq Tiers
  /\ price \in [Tiers -> Prices \cup {NoPrice}]
  /\ override \in [Contacts -> Prices \cup {NoPrice}]
  /\ page \in Page

\* The price found for a tier, and one found among the overrides, are prices.
LEMMA FoundPrices ==
  ASSUME Typed, NEW r
  PROVE  /\ TierPrice(r) \in Prices \cup {NoPrice}
         /\ OwnPrices(r) \subseteq Prices \cup {NoPrice}
  BY DEF Typed, TierPrice, AudienceTier, Tiers, OwnPrices, OverridesFor

\* The quotes of a tier or of a contact are prices.
LEMMA QuotesArePrices ==
  ASSUME NEW x \in Tiers \cup Contacts
  PROVE  Quotes[x] \subseteq Prices
  BY DEF Prices

\* The variables start in their types ...
LEMMA TypesStart == Init => Typed
  BY BookStarts DEF Init, Typed, Page, NoPage

\* ... and every step keeps them there.
LEMMA TypesStep ==
  ASSUME Typed, [Next]_vars
  PROVE  Typed'
<1>1. ASSUME NEW r \in Readers, OpenPage(r) PROVE Typed'
  BY <1>1 DEF OpenPage, Typed, rows, Page, NoPage, BookInv, BookTypeOK, OneContactPerPartner
<1>2. ASSUME ReadPrices PROVE Typed'
  <2>1. TierPrice(page.reader) \in Prices \cup {NoPrice}
    BY FoundPrices
  <2> QED BY <1>2, <2>1 DEF ReadPrices, Typed, rows, Page, BookInv, BookTypeOK, OneContactPerPartner
<1>3. ASSUME ReadOverrides PROVE Typed'
  <2>1. OwnPrices(page.reader) \subseteq Prices \cup {NoPrice}
    BY FoundPrices
  <2>2. /\ page' \in Page
        /\ UNCHANGED rows
    BY <1>3, <2>1 DEF ReadOverrides, Typed, Page
  <2> QED BY <2>2 DEF Typed, rows, BookInv, BookTypeOK, OneContactPerPartner
<1>4. ASSUME ClosePage PROVE Typed'
  BY <1>4 DEF ClosePage, Typed, rows, Page, NoPage, BookInv, BookTypeOK, OneContactPerPartner
<1>5. ASSUME Change PROVE Typed'
  <2>1. ASSUME NEW b2b \in Quotes["b2b"] \ {Inquiry}, NEW b2c \in Quotes["b2c"] \ {Inquiry},
               SetLotPrices(b2b, b2c)
        PROVE  Typed'
    BY <2>1, QuotesArePrices
       DEF SetLotPrices, Typed, Tiers, BookInv, BookTypeOK, OneContactPerPartner
  <2>2. ASSUME NEW t \in Tiers, SwitchTier(t) PROVE Typed'
    BY <2>2 DEF SwitchTier, Typed, BookInv, BookTypeOK, OneContactPerPartner
  <2>3. ASSUME NEW t \in Tiers, NEW p \in Quotes[t] \cup {NoPrice}, AdminSetsPrice(t, p)
        PROVE  Typed'
    BY <2>3, QuotesArePrices DEF AdminSetsPrice, Typed, BookInv, BookTypeOK, OneContactPerPartner
  <2>4. ASSUME NEW c \in Contacts, NEW p \in Quotes[c], SetContactPrice(c, p) PROVE Typed'
    BY <2>4, QuotesArePrices DEF SetContactPrice, Typed, BookInv, BookTypeOK, OneContactPerPartner
  <2>5. ASSUME NEW c \in Contacts, RemoveContactPrice(c) PROVE Typed'
    BY <2>5 DEF RemoveContactPrice, Typed, BookInv, BookTypeOK, OneContactPerPartner
  <2>6. ASSUME NEW c \in Contacts, ChangeContact(c) PROVE Typed'
    BY <2>6, BookStep DEF ChangeContact, Typed
  <2> QED BY <1>5, <2>1, <2>2, <2>3, <2>4, <2>5, <2>6 DEF Change
<1>6. CASE UNCHANGED vars
  BY <1>6 DEF vars, Typed, BookInv, BookTypeOK, OneContactPerPartner
<1> QED BY <1>1, <1>2, <1>3, <1>4, <1>5, <1>6 DEF Next, Step

(***************************************************************************)
(* One override                                                             *)
(***************************************************************************)

\* OneOverride holds for any contacts: the overrides that apply to a partner are
\* those of contacts linked to it, and there is one such contact at most.
THEOREM PartnersMatchOneOverride == Spec => []OneOverride
<1>1. Init => Typed
  BY TypesStart
<1>2. Typed /\ [Next]_vars => Typed'
  BY TypesStep
<1>3. Typed => OneOverride
  BY PricingConstants DEF Typed, BookInv, OneContactPerPartner, OneOverride, OverridesFor
<1> QED BY <1>1, <1>2, <1>3, PTL DEF Spec

(***************************************************************************)
(* The page                                                                 *)
(***************************************************************************)

\* What a page has read was on offer; what it found of the tier is the price of the
\* tier still, unless that was torn; what it shows was meant, unless torn.
PageInv ==
  /\ page.reader = NoReader => page = NoPage /\ torn = FALSE
  /\ page.reader # NoReader =>
       /\ page.found \in offered \cup {NoPrice}
       /\ page.own \in offered \cup {NoPrice}
       /\ page.stage # "shown" => page.own = NoPrice
       /\ page.stage = "overrides" =>
            page.reader # Public /\ (torn \/ page.found = TierPrice(page.reader))
       /\ page.stage = "shown" => torn \/ Shown(page.found, page.own) \in meant

IInv == Typed /\ PageInv

\* What the two queries find is on offer at that moment.
LEMMA FoundIsOffered ==
  ASSUME Typed, NEW r \in Readers
  PROVE  /\ TierPrice(r) \in OfferedTo(r) \cup {NoPrice}
         /\ OwnPrices(r) \subseteq OfferedTo(r) \cup {NoPrice}
<1>1. TierPrice(r) \in OfferedTo(r) \cup {NoPrice}
  BY DEF TierPrice, AudienceTier, OfferedTo
<1>2. ASSUME NEW c \in OverridesFor(r), r # Public
      PROVE  override[c] \in OfferedTo(r)
  <2>1. contact[c] = [state |-> "active", link |-> r]
    BY <1>2 DEF OverridesFor, Typed, BookInv, BookTypeOK, Row
  <2> QED BY <1>2, <2>1 DEF OverridesFor, OfferedTo
<1> QED BY <1>1, <1>2 DEF OwnPrices

\* With an override that applies, the owner means that one ...
LEMMA AgreedIsMeant ==
  ASSUME Typed, NEW r \in Readers, r # Public, NEW c \in OverridesFor(r)
  PROVE  Label(override[c]) \in MeantFor(r)
<1>1. contact[c] = [state |-> "active", link |-> r]
  BY DEF OverridesFor, Typed, BookInv, BookTypeOK, Row
<1> QED BY <1>1 DEF OverridesFor, MeantFor

\* ... and without one, the price of the tier.
LEMMA TierIsMeant ==
  ASSUME Typed, NEW r \in Readers, r = Public \/ OverridesFor(r) = {}
  PROVE  Label(TierPrice(r)) \in MeantFor(r)
<1>1. {c \in Contacts : /\ r # Public
                        /\ contact[c] = [state |-> "active", link |-> r]
                        /\ override[c] # NoPrice} = {}
  BY DEF OverridesFor
<1>2. Label(NoPrice) = NoPrice
  BY PricingConstants DEF Label, Amounts
<1>3. MeantFor(r) = {IF AudienceTier(r) \in tiers THEN Label(price[AudienceTier(r)]) ELSE NoPrice}
  BY <1>1 DEF MeantFor, AudienceTier
<1> QED BY <1>2, <1>3 DEF TierPrice

\* While a page stays open, the histories only grow.
LEMMA WatchGrows ==
  ASSUME Watch, page.reader # NoReader, page'.reader # NoReader
  PROVE  /\ offered \subseteq offered' /\ OfferedTo(page.reader)' \subseteq offered'
         /\ meant \subseteq meant' /\ MeantFor(page.reader)' \subseteq meant'
         /\ torn => torn'
         /\ page.stage = "overrides" => torn' \/ TierPrice(page.reader)' = page.found
  BY DEF Watch

\* No page is open at the start.
LEMMA PageStarts == Init => PageInv
  BY DEF Init, PageInv, NoPage

\* Every step keeps what is known of the open page.
LEMMA PageStep ==
  ASSUME IInv, [Next]_vars
  PROVE  PageInv'
<1> USE DEF IInv
<1>1. ASSUME Watch, NEW r \in Readers, OpenPage(r) PROVE PageInv'
  BY <1>1, PricingConstants DEF OpenPage, Watch, PageInv, NoPage
<1>2. ASSUME Watch, ReadPrices PROVE PageInv'
  <2> DEFINE r == page.reader
  <2>1. r \in Readers /\ page'.reader = r /\ page'.own = NoPrice /\ page'.found = TierPrice(r)
    BY <1>2 DEF ReadPrices, Typed, Page, PageInv
  <2>2. OfferedTo(r)' = OfferedTo(r) /\ MeantFor(r)' = MeantFor(r) /\ TierPrice(r)' = TierPrice(r)
    BY <1>2, <2>1 DEF ReadPrices, rows, OfferedTo, MeantFor, TierPrice, Label
  <2>3. r # NoReader
    BY <1>2 DEF ReadPrices
  <2>4. TierPrice(r) \in offered' \cup {NoPrice}
    BY <1>2, <2>1, <2>2, <2>3, FoundIsOffered, WatchGrows
  <2>5. CASE r = Public
    <3>1. page'.stage = "shown"
      BY <1>2, <2>5 DEF ReadPrices, Typed, Page
    <3>2. Shown(TierPrice(r), NoPrice) \in meant'
      BY <1>2, <2>1, <2>2, <2>3, <2>5, TierIsMeant, WatchGrows DEF Shown
    <3> QED BY <2>1, <2>3, <2>4, <3>1, <3>2 DEF PageInv
  <2>6. CASE r # Public
    <3>1. page'.stage = "overrides"
      BY <1>2, <2>6 DEF ReadPrices, Typed, Page
    <3> QED BY <2>1, <2>2, <2>3, <2>4, <2>6, <3>1 DEF PageInv
  <2> QED BY <2>5, <2>6
<1>3. ASSUME Watch, ReadOverrides PROVE PageInv'
  <2> DEFINE r == page.reader
  <2>1. r # NoReader /\ r \in Readers /\ r # Public
    BY <1>3 DEF ReadOverrides, Typed, Page, PageInv, NoPage
  <2>2. PICK p \in OwnPrices(r) : page' = [page EXCEPT !.own = p, !.stage = "shown"]
    BY <1>3 DEF ReadOverrides
  <2>3. page'.reader = r /\ page'.found = page.found /\ page'.own = p /\ page'.stage = "shown"
    BY <2>2 DEF Typed, Page
  <2>4. OfferedTo(r)' = OfferedTo(r) /\ MeantFor(r)' = MeantFor(r) /\ TierPrice(r)' = TierPrice(r)
    BY <1>3, <2>3 DEF ReadOverrides, rows, OfferedTo, MeantFor, TierPrice, Label
  <2>5. page.found \in offered' \cup {NoPrice} /\ p \in offered' \cup {NoPrice}
    BY <1>3, <2>1, <2>2, <2>3, <2>4, FoundIsOffered, WatchGrows DEF PageInv
  <2>6. torn' \/ page.found = TierPrice(r)
    BY <1>3, <2>1, <2>3, <2>4, WatchGrows DEF ReadOverrides
  <2>7. torn' \/ Shown(page.found, p) \in meant'
    <3>1. CASE OverridesFor(r) = {}
      <4>1. p = NoPrice
        BY <2>2, <3>1 DEF OwnPrices
      <4>2. Label(TierPrice(r)) \in meant'
        BY <1>3, <2>1, <2>3, <2>4, <3>1, TierIsMeant, WatchGrows
      <4> QED BY <2>6, <4>1, <4>2 DEF Shown
    <3>2. CASE OverridesFor(r) # {}
      <4>1. PICK c \in OverridesFor(r) : p = override[c]
        BY <2>1, <2>2, <3>2 DEF OwnPrices
      <4>2. p # NoPrice
        BY <4>1 DEF OverridesFor
      <4>3. Label(p) \in meant'
        BY <1>3, <2>1, <2>3, <2>4, <4>1, AgreedIsMeant, WatchGrows
      <4> QED BY <4>2, <4>3 DEF Shown
    <3> QED BY <3>1, <3>2
  <2> QED BY <2>1, <2>3, <2>5, <2>7 DEF PageInv
<1>4. ASSUME Watch, ClosePage PROVE PageInv'
  BY <1>4 DEF ClosePage, Watch, PageInv, NoPage
<1>5. ASSUME Watch, page.stage # "shown", Change PROVE PageInv'
  <2>1. page' = page
    BY <1>5 DEF Change, SetLotPrices, SwitchTier, AdminSetsPrice, SetContactPrice,
                RemoveContactPrice, ChangeContact
  <2>2. CASE page.reader = NoReader
    BY <1>5, <2>1, <2>2 DEF Watch, PageInv
  <2>3. CASE page.reader # NoReader
    BY <1>5, <2>1, <2>3, WatchGrows DEF PageInv
  <2> QED BY <2>2, <2>3
<1>6. CASE UNCHANGED vars
  BY <1>6 DEF vars, PageInv, TierPrice
<1> QED BY <1>1, <1>2, <1>3, <1>4, <1>5, <1>6 DEF Next, Step

\* The inductive invariant of the pages.
THEOREM PricingInvariant == Spec => []IInv
<1>1. Init => IInv
  BY TypesStart, PageStarts DEF IInv
<1>2. IInv /\ [Next]_vars => IInv'
  BY TypesStep, PageStep DEF IInv
<1> QED BY <1>1, <1>2, PTL DEF Spec

\* OnlyWhatWasOffered, for any contacts, partners, readers and quotes.
THEOREM PagesShowWhatWasOffered == Spec => []OnlyWhatWasOffered
<1>1. IInv => OnlyWhatWasOffered
  BY DEF IInv, PageInv, OnlyWhatWasOffered, Shown, Label, NoPage
<1> QED BY <1>1, PricingInvariant, PTL

\* ShownWasMeant, for any contacts, partners, readers and quotes.
THEOREM PagesShowWhatWasMeant == Spec => []ShownWasMeant
<1>1. IInv => ShownWasMeant
  BY DEF IInv, PageInv, ShownWasMeant, NoPage
<1> QED BY <1>1, PricingInvariant, PTL
==============================================================================
