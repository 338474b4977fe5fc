------------------------------- MODULE Pricing -------------------------------
(***************************************************************************)
(* Who is shown which price of a lot (apps/pricing, and the price payloads  *)
(* of apps/marketplace and apps/catalog).                                   *)
(*                                                                          *)
(* A lot has a price per tier, and overrides for single contacts. A page    *)
(* for a partner prefetches the prices of the B2B tier and the overrides of *)
(* that partner in two queries, with no snapshot between them; a public     *)
(* page reads the B2C tier only. Prices, tiers, overrides and contacts may  *)
(* change between the queries.                                              *)
(*                                                                          *)
(* One lot, on the market all the while; currencies and units other than    *)
(* inquiry_only are left out, and so are the owner's own pages.             *)
(***************************************************************************)
EXTENDS ContactBook

CONSTANTS Readers,   \* who opens pages: partners, and Public
          Public,    \* an anonymous visitor
          NoReader,  \* no page is being built
          Inquiry,   \* unit INQUIRY_ONLY
          Quotes,    \* what each tier and each contact may be quoted: amounts, Inquiry
          NoPrice    \* no row; on a page: "ask for the price"

Tiers == {"b2b", "b2c"}
Prices == UNION {Quotes[x] : x \in Tiers \cup Contacts}
Amounts == Prices \ {Inquiry}

ASSUME PricingConstants ==
  /\ Readers \subseteq Partners \cup {Public}
  /\ Public \notin Partners
  /\ NoReader \notin Readers
  /\ NoLink \notin Partners \cup {Public}
  /\ NoPrice \notin Prices

VARIABLES tiers,      \* the tiers that are active
          price,      \* price[t]: the row of LotPrice
          override,   \* override[c]: the row of ContactPrice
          page,       \* the page being built
          offered,    \* history: what its reader has been offered since it was opened
          meant,      \* history: the prices meant for its reader since it was opened
          torn        \* history: the tier's price has changed since the page read it

rows == <<contact, tiers, price, override>>
vars == <<contact, tiers, price, override, page, offered, meant, torn>>

\* found: the price of the tier, own: the override, as they were read.
Page == [reader : Readers \cup {NoReader},
         stage  : {"prices", "overrides", "shown"},
         found  : Prices \cup {NoPrice},
         own    : Prices \cup {NoPrice}]

NoPage == [reader |-> NoReader, stage |-> "prices", found |-> NoPrice, own |-> NoPrice]

TypeOK ==
  /\ contact \in [Contacts -> Row]
  /\ tiers \subseteq Tiers
  /\ price \in [Tiers -> Prices \cup {NoPrice}]
  /\ override \in [Contacts -> Prices \cup {NoPrice}]
  /\ page \in Page
  /\ offered \subseteq Prices \cup {NoPrice}
  /\ meant \subseteq Amounts \cup {NoPrice}
  /\ torn \in BOOLEAN

-----------------------------------------------------------------------------
(* Resolution *)

AudienceTier(r) == IF r = Public THEN "b2c" ELSE "b2b"

\* FAULTY: the tier's own switch is ignored.
FaultyTierPrice(r) == price[AudienceTier(r)]

\* The price of the reader's tier, if that tier is active.
TierPrice(r) == IF AudienceTier(r) \in tiers THEN price[AudienceTier(r)] ELSE NoPrice

\* FAULTY: overrides of archived contacts still apply.
FaultyOverridesFor(r) == {c \in Contacts : contact[c].link = r /\ override[c] # NoPrice}

\* The contacts whose overrides apply to r.
OverridesFor(r) ==
  {c \in Contacts : /\ contact[c].link = r
                    /\ contact[c].state = "active"
                    /\ override[c] # NoPrice}

\* The first override that applies, in no particular order.
OwnPrices(r) ==
  IF r = Public \/ OverridesFor(r) = {} THEN {NoPrice}
  ELSE {override[c] : c \in OverridesFor(r)}

\* An amount, or nothing where there is none to show.
Label(p) == IF p \in Amounts THEN p ELSE NoPrice

\* The override before the tier.
Shown(found, own) == Label(IF own # NoPrice THEN own ELSE found)

-----------------------------------------------------------------------------
(* The page *)

OpenPage(r) ==
  /\ page.reader = NoReader
  /\ page' = [NoPage EXCEPT !.reader = r]
  /\ UNCHANGED rows

\* The prefetch of the tier's prices. A public page has no other query.
ReadPrices ==
  /\ page.reader # NoReader
  /\ page.stage = "prices"
  /\ page' = [page EXCEPT !.found = TierPrice(page.reader),
                          !.stage = IF page.reader = Public THEN "shown" ELSE "overrides"]
  /\ UNCHANGED rows

\* The prefetch of the viewer's overrides.
ReadOverrides ==
  /\ page.stage = "overrides"
  /\ \E p \in OwnPrices(page.reader) : page' = [page EXCEPT !.own = p, !.stage = "shown"]
  /\ UNCHANGED rows

ClosePage ==
  /\ page.stage = "shown"
  /\ page' = NoPage
  /\ UNCHANGED rows

-----------------------------------------------------------------------------
(* The owner and the administrators *)

\* lot_edit and quick_add_prices: both tiers in one transaction.
SetLotPrices(b2b, b2c) ==
  /\ price' = [price EXCEPT !["b2b"] = b2b, !["b2c"] = b2c]
  /\ UNCHANGED <<contact, tiers, override, page>>

\* An administrator edits or deletes the row of one tier.
AdminSetsPrice(t, p) ==
  /\ price' = [price EXCEPT ![t] = p]
  /\ UNCHANGED <<contact, tiers, override, page>>

SwitchTier(t) ==
  /\ tiers' = IF t \in tiers THEN tiers \ {t} ELSE tiers \cup {t}
  /\ UNCHANGED <<contact, price, override, page>>

\* The form offers the contacts that are not archived.
SetContactPrice(c, p) ==
  /\ contact[c].state = "active"
  /\ override' = [override EXCEPT ![c] = p]
  /\ UNCHANGED <<contact, tiers, price, page>>

RemoveContactPrice(c) ==
  /\ Present(c)
  /\ override' = [override EXCEPT ![c] = NoPrice]
  /\ UNCHANGED <<contact, tiers, price, page>>

ChangeContact(c) ==
  /\ ContactStep(c)
  /\ UNCHANGED <<tiers, price, override, page>>

-----------------------------------------------------------------------------
(* What the owner means, said without the code's order of queries *)

\* Everything on offer to r: the price of its tier and those made to the
\* contacts linked to it.
OfferedTo(r) ==
  IF r = Public THEN IF "b2c" \in tiers THEN {price["b2c"]} ELSE {}
  ELSE {override[c] : c \in {d \in Contacts : contact[d] = [state |-> "active", link |-> r]}}
       \cup IF "b2b" \in tiers THEN {price["b2b"]} ELSE {}

\* The one price meant for r: what was agreed with it, an inquiry included,
\* and the price of its tier otherwise.
MeantFor(r) ==
  LET agreed == {c \in Contacts : /\ r # Public
                                  /\ contact[c] = [state |-> "active", link |-> r]
                                  /\ override[c] # NoPrice}
      tier   == IF r = Public THEN "b2c" ELSE "b2b"
  IN IF agreed # {} THEN {Label(override[c]) : c \in agreed}
     ELSE {IF tier \in tiers THEN Label(price[tier]) ELSE NoPrice}

\* Since the page was opened, this step included.
Watch ==
  LET open == page.reader # NoReader
      opens == page'.reader # NoReader
  IN /\ offered' = IF ~opens THEN {} ELSE (IF open THEN offered ELSE {}) \cup OfferedTo(page.reader)'
     /\ meant' = IF ~opens THEN {} ELSE (IF open THEN meant ELSE {}) \cup MeantFor(page.reader)'
     /\ torn' = (opens /\ (torn \/ /\ page.stage = "overrides"
                                   /\ TierPrice(page.reader)' # page.found))

Init ==
  /\ ContactsInit
  /\ tiers = Tiers
  /\ price = [t \in Tiers |-> NoPrice]
  /\ override = [c \in Contacts |-> NoPrice]
  /\ page = NoPage
  /\ offered = {}
  /\ meant = {}
  /\ torn = FALSE

Change ==
  \/ \E b2b \in Quotes["b2b"] \ {Inquiry}, b2c \in Quotes["b2c"] \ {Inquiry} :
       SetLotPrices(b2b, b2c)
  \/ \E t \in Tiers : \/ SwitchTier(t)
                      \/ \E p \in Quotes[t] \cup {NoPrice} : AdminSetsPrice(t, p)
  \/ \E c \in Contacts : \/ \E p \in Quotes[c] : SetContactPrice(c, p)
                         \/ RemoveContactPrice(c)
                         \/ ChangeContact(c)

Step ==
  \/ \E r \in Readers : OpenPage(r)
  \/ ReadPrices
  \/ ReadOverrides
  \/ ClosePage
  \/ page.stage # "shown" /\ Change   \* a page that is complete is not kept

Next == Step /\ Watch

Spec == Init /\ [][Next]_vars

-----------------------------------------------------------------------------
(* Properties *)

\* Whatever contacts are linked, archived and restored, a partner never matches two
\* overrides: the one it is shown does not depend on the order of a query.
OneOverride ==
  \A r \in Partners : \A c, d \in OverridesFor(r) : c = d

\* Whatever changes while the page is built, the amount it shows was on offer to
\* its reader meanwhile: never the price of another audience or another contact.
OnlyWhatWasOffered ==
  page.stage = "shown" => Shown(page.found, page.own) \in offered \cup {NoPrice}

\* It was the very price meant for its reader at some moment, the override before
\* the tier, unless the price of the tier changed between the two queries.
ShownWasMeant ==
  page.stage = "shown" => torn \/ Shown(page.found, page.own) \in meant
==============================================================================
