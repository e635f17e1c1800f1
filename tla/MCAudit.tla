------------------------------- MODULE MCAudit -------------------------------
\* Requests in any order are the same trail: no model values but numbers.
EXTENDS AuditTrail
=============================================================================
