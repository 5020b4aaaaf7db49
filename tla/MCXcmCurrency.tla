---------------------------- MODULE MCXcmCurrency ----------------------------
(***************************************************************************)
(* Instantiation of XcmInbound (and with it XcmCurrency) for TLC: the      *)
(* chain, one sibling and Acala, two foreign assets, and registry          *)
(* locations chosen to meet every branch of the location match: the relay  *)
(* chain, a sibling, keys under this chain's parachain, a key under a      *)
(* sibling and a bare local key.  Messages come from the relay chain, its  *)
(* executive body, Acala and the sibling, and name any of those locations  *)
(* or this chain's own tokens.                                             *)
(***************************************************************************)
EXTENDS XcmInbound

CONSTANTS self, sibling, acala, f1, f2, alice, bob

MCRegistryLocations ==
  { Parent,
    Loc(1, <<ParachainJ(sibling)>>),
    Loc(1, <<ParachainJ(acala)>>),
    NativeCurrencyLocation(sibling, Encode(ZERO)),
    NativeCurrencyLocation(self, Encode(KSM)),
    NativeCurrencyLocation(self, <<ForeignIndex, f1>>),
    Loc(0, <<KeyJ(Encode(DOT))>>) }

\* The same, and this chain's own ZERO location, as other chains write it,
\* registered as a foreign asset.
MCShadowLocations ==
  MCRegistryLocations \cup {NativeCurrencyLocation(self, Encode(ZERO))}

MCOrigins ==
  { Parent, Loc(1, <<PluralityJ("Executive")>>),
    Loc(1, <<ParachainJ(sibling)>>), Loc(1, <<ParachainJ(acala)>>) }

MCMessageLocations ==
  MCShadowLocations \cup {LocalCurrencyLocation(ZERO)}

\* The sovereign accounts of the relay chain and the sibling hold two DOT
\* and two ZERO, Acala's two ZERO; the beneficiary holds nothing.
MCGenesis ==
  LET accounts == ({LocationToAccountId(o) : o \in MCOrigins} \ {NoAccount})
                  \cup {BeneficiaryAccount}
      holds(a, c) ==
        \/ a \in {ParentAccount, SiblingAccount(sibling)} /\ c \in {DOT, ZERO}
        \/ a = SiblingAccount(acala) /\ c = ZERO
  IN [p \in accounts \X CurrencyIds |-> IF holds(p[1], p[2]) THEN Amount ELSE 0]

====
