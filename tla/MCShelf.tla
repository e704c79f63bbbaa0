------------------------------ MODULE MCShelf ------------------------------
\* Two shelves for TLC; neither name is a prefix of the other.
EXTENDS Shelf

MCThis == <<1>>
MCOther == <<2, 1>>

=============================================================================
