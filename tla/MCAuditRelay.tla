---------------------------- MODULE MCAuditRelay ----------------------------
(* The audit relay for TLC: workers as model values.                        *)
EXTENDS AuditRelay

CONSTANTS r1, r2

=============================================================================
