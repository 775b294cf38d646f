------------------------------ MODULE MCAnchor ------------------------------
\* One hash is submitted again and again by one client at a time; two workers.
EXTENDS Anchor
=============================================================================
