--------------------------- MODULE MCDocumentImages ---------------------------
(* Instances of DocumentImages for TLC.                                     *)
EXTENDS DocumentImages, TLC

CONSTANTS h1, h2, icon

Table(h, html, layer) == [hash |-> h, html |-> html, layer |-> layer]
Shape(kind, figures, tables) == [kind |-> kind, figures |-> figures, tables |-> tables]

\* Repeats, noise, lists longer than Cap, tables that are reliable, made by OCR
\* or without markup, a crop that is also a figure.
MCShapes == {Shape("pdf", <<h1, h1, h2>>, <<Table(h2, "full", "unknown")>>),
             Shape("pdf", <<h1, icon>>, <<Table(h2, "full", "thin"), Table(h1, "none", "rich")>>),
             Shape("page", <<h1, h2, h1>>, << >>),
             Shape("image", <<h2>>, << >>)}

Symmetry == Permutations(Doc) \cup Permutations(Tenant)
=============================================================================
