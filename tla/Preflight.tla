----------------------------- MODULE Preflight ------------------------------
(***************************************************************************)
(* What the preflight makes of the text of a scan: the store whose address *)
(* it bears, a confidence, and the advice to have it reviewed by hand.     *)
(* Confidences and scores are per cent.  A scan is what is recognised in   *)
(* the text: is there any, a supplier, a date, a number of an albaran, a   *)
(* word for albaran; the postal codes, and for each store how much of its  *)
(* city and of its street the text has.                                    *)
(***************************************************************************)
EXTENDS Integers, FiniteSetsExt

CONSTANTS
  None,
  Store,   \* the catalogue of stores
  Postal   \* the postal code of each

SUGGEST_THRESHOLD == 50
MANUAL_REVIEW_THRESHOLD == 50

AtMost(limit, x) == IF x > limit THEN limit ELSE x

\* Likenesses and confidences lie between none and full.
IsScan(scan) ==
  /\ {scan.number, scan.word, scan.supplier, scan.date} \subseteq BOOLEAN
  /\ scan.city \in [Store -> 0..100] /\ scan.street \in [Store -> 0..100]

NoMatch == [store |-> None, confidence |-> 0]

Best(S, Score(_)) == CHOOSE s \in S : \A t \in S : Score(t) <= Score(s)

FuzzyScore(scan, s) == AtMost(99, (55 * scan.city[s] + 45 * scan.street[s]) \div 100)

\* A store whose postal code is in the text comes before any likeness.
DetectStore(scan) ==
  LET byCode == {s \in Store : Postal[s] \in scan.postal}
      coded == Best(byCode, LAMBDA s : scan.street[s])
      alike == Best(Store, LAMBDA s : FuzzyScore(scan, s))
  IN  IF byCode # {}
      THEN [store |-> coded,
            confidence |-> AtMost(100, 95 + Max({scan.city[coded], scan.street[coded]}) \div 20)]
      ELSE IF Store = {} \/ FuzzyScore(scan, alike) < SUGGEST_THRESHOLD THEN NoMatch
      ELSE [store |-> alike, confidence |-> FuzzyScore(scan, alike)]

IsAlbaran(scan) == scan.number \/ scan.word

Confidence(scan) ==
  AtMost(100, DetectStore(scan).confidence \div 2
              + (IF IsAlbaran(scan) THEN 50 ELSE 0)
              + (IF scan.supplier THEN 15 ELSE 0)
              + (IF scan.date THEN 10 ELSE 0))

\* PreflightSummary: what is kept of the result.
Summary == [store : Store \cup {None}, confidence : 0..100, albaran : BOOLEAN,
            review : BOOLEAN]

\* The result for a scan, or for none: not configured, failed or without text.
RunPreflight(scan) ==
  IF scan = None
  THEN [store |-> None, confidence |-> 10, albaran |-> FALSE, review |-> TRUE]
  ELSE [store |-> DetectStore(scan).store, confidence |-> Confidence(scan),
        albaran |-> IsAlbaran(scan), review |-> Confidence(scan) < MANUAL_REVIEW_THRESHOLD]
=============================================================================
