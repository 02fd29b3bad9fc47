----------------------------- MODULE ErrorCodes -----------------------------
(***************************************************************************)
(* crates/wtcore/src/h3.rs: the mapping of WebTransport application error  *)
(* codes into the HTTP/3 error space, which a stream reset or STOP_SENDING *)
(* carries, and its inverse.                                               *)
(***************************************************************************)
EXTENDS Integers

CONSTANTS
  First,     \* WT_APP_ERROR_FIRST
  MaxCode    \* the largest application code, 0xffff_ffff

\* 0x52e4_a40f_a8db follows a GREASE code point, as the proofs need.
ASSUME CodeAssumption ==
  /\ First \in Nat /\ MaxCode \in Nat
  /\ First > 33 /\ (First - 33) % 31 = 1

None == -1

\* webtransport_code_to_http_code
ToHttp(n) == First + n + n \div 30

LastCode == ToHttp(MaxCode)                 \* WT_APP_ERROR_LAST
Grease(h) == (h - 33) % 31 = 0          \* the code points HTTP/3 reserves

\* http_code_to_webtransport_code
FromHttp(h) ==
  IF h \notin First .. LastCode \/ Grease(h)
  THEN None
  ELSE (h - First) - (h - First) \div 31
=============================================================================
