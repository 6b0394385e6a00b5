--------------------------- MODULE MCUploadSession --------------------------
(* Small instances of UploadSession for TLC. *)
EXTENDS UploadSession, TLC

CONSTANTS q1, q2, q3, q4, s1, s2

RequestSymmetry == Permutations(Request)

File(size) == [name |-> [base |-> "safe", traversal |-> FALSE],
               type |-> "image/png", size |-> size]

\* Two files that can be uploaded; a larger one, one with an odd name, and one
\* of another type, which cannot.
MCMetadata ==
  {File(size) : size \in 1..3}
    \cup {[File(1) EXCEPT !.name.base = "odd"], [File(1) EXCEPT !.type = "text/html"]}

MCPostal == [s \in Store |-> s]

Likeness(x, y) == [s \in Store |-> IF s = s1 THEN x ELSE y]
Text(number, supplier, postal, city, street) ==
  [number |-> number, word |-> FALSE, supplier |-> supplier, date |-> supplier,
   postal |-> postal, city |-> city, street |-> street]

\* An albaran that bears a postal code, a letter from a street of the second
\* store, and a page with a supplier and a date.
MCScan ==
  {Text(TRUE, TRUE, {s1, s2}, Likeness(100, 0), Likeness(100, 20)),
   Text(FALSE, TRUE, {}, Likeness(0, 100), Likeness(10, 90)),
   Text(FALSE, TRUE, {}, Likeness(30, 10), Likeness(20, 0))}
=============================================================================
