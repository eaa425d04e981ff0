------------------------------ MODULE MCKMalloc ------------------------------
EXTENDS KMalloc

\* Two sizes, of three chunks a page and of one.
Thirds == <<3, 1>>
=============================================================================
