------------------------------ MODULE PostHandler ------------------------------
(***************************************************************************)
(* The POST handlers of the web server that BLE-Connect and LAB share      *)
(* (LIB/http_as_server/http_serve.c; no program of the repository starts   *)
(* it): a body is read in pieces into one buffer, and each piece is sent   *)
(* back.  The callback that gets it from there, but for /echo, is the      *)
(* program's, and no program sets one.  The server has one task.           *)
(***************************************************************************)
EXTENDS Naturals

CONSTANTS BufLen,      \* the size of buf
          MaxBody      \* bound: the longest body

ASSUME PostAssumption == BufLen \in Nat \ {0} /\ MaxBody \in Nat

VARIABLES
  handler,     \* the handler at work
  content_len, remaining,
  echoed       \* bytes sent back

postVars == <<handler, content_len, remaining, echoed>>

Handler == {"echo", "switch", "wifi", "slider"}

H_TypeOK ==
  /\ handler \in Handler \cup {"none", "done", "closed"}
  /\ content_len \in 0..MaxBody /\ remaining \in 0..MaxBody /\ echoed \in 0..MaxBody

H_Init == handler = "none" /\ content_len = 0 /\ remaining = 0 /\ echoed = 0

Request(h, n) ==
  /\ handler \notin Handler
  /\ handler' = h
  /\ content_len' = n /\ remaining' = n
  /\ echoed' = 0

PostEcho == \E n \in 0..MaxBody : Request("echo", n)
PostSwitch == \E n \in 0..MaxBody : Request("switch", n)
PostWifi == \E n \in 0..MaxBody : Request("wifi", n)
PostSlider == \E n \in 0..MaxBody : Request("slider", n)

Least(a, b) == IF a < b THEN a ELSE b

(* One turn of the loop that receives something.                           *)
Piece ==
  /\ handler \in Handler /\ remaining > 0
  /\ \E ret \in 1..Least(remaining, BufLen) :
       /\ remaining' = remaining - ret
       /\ echoed' = echoed + ret
  /\ UNCHANGED <<handler, content_len>>

(* The connection fails: ESP_FAIL.  (A timeout is retried for ever.)       *)
PieceError ==
  /\ handler \in Handler /\ remaining > 0
  /\ handler' = "closed"
  /\ UNCHANGED <<content_len, remaining, echoed>>

(* The last, empty chunk.                                                  *)
PostEnd ==
  /\ handler \in Handler /\ remaining = 0
  /\ handler' = "done"
  /\ UNCHANGED <<content_len, remaining, echoed>>

-----------------------------------------------------------------------------
(* A request that ended well has sent back just what came.  (Lines 96-97.) *)
EchoWhole == handler = "done" => echoed = content_len
=============================================================================
