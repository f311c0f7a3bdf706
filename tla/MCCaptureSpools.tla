-------------------------- MODULE MCCaptureSpools --------------------------
\* Two tabs, one of which records, and storage that may fail at any request.
EXTENDS CaptureSpools, TLC
=============================================================================
