------------------------------ MODULE MCTools -------------------------------
(* An instance of Tools for TLC: a tool that asks or tells, with a text that *)
(* may be too long for a message, and one that opens a file of the largest   *)
(* size or of a byte more.                                                   *)
EXTENDS Tools

CONSTANTS text, file

Wish(p, n) == [program |-> p, size |-> n]

Choices == [t \in Tools |->
  CASE t = text -> {Wish("confirm", 80), Wish("confirm", MaxMessageSize), Wish("notify", 80)}
    [] t = file -> {Wish("xdg-open", MaxFileSize), Wish("xdg-open", MaxFileSize + 1),
                    Wish("open", MaxFileSize), Wish("open", MaxFileSize + 1)}]
=============================================================================
