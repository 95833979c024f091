----------------------------- MODULE MCSiteScrape -----------------------------
(* Instances of SiteScrape for TLC.                                         *)
EXTENDS SiteScrape, FiniteSets

Pages == {"root", "a", "b", "c", "d"}
Others == {"offsite", "internal", "pdf"}

\* Every page has the spelling that a link without a fragment has; one of them
\* is also linked with a fragment.
MCSpelling == Pages \cup Others \cup {"b#top"}
MCNorm == [s \in MCSpelling |-> IF s = "b#top" THEN "b" ELSE s]

\* Any links among the pages; the root also links out of the site.
LinkSets == {<<"b#top">>, <<"a", "c", "b">>, <<"d", "c", "d">>, <<"root">>}
MCSites == {[s \in MCSpelling |->
               IF s = "root" THEN r \o <<"offsite", "internal", "pdf">>
               ELSE IF s = "a" THEN a ELSE IF s = "b" THEN b
               ELSE IF s = "c" THEN <<"root", "d">> ELSE << >>] :
               r \in LinkSets, a \in LinkSets, b \in LinkSets}
MCSeeds == {<<"root">>, <<"pdf">>, <<"internal">>, <<"a", "b#top">>}
=============================================================================
