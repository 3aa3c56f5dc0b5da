-------------------------- MODULE MCKlassRegistry --------------------------
(* Two core and two user klasses for the instances of KlassRegistry.       *)
EXTENDS KlassRegistry

CONSTANTS endianness, base, u1, u2

CoreKlasses == <<endianness, base>>

\* One to three info events per klass, of sizes that fill a buffer of 4
\* exactly, leave a gap, and need a buffer of their own.
InfoSizes ==
  [k \in Klasses |-> CASE k = endianness -> <<2, 1>>
                       [] k = base -> <<1>>
                       [] k = u1 -> <<2, 3, 1>>
                       [] OTHER -> <<4>>]

=============================================================================
