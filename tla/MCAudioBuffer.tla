--------------------------- MODULE MCAudioBuffer ---------------------------
\* AudioBuffer at the bounds of AudioBuffer.cfg.
EXTENDS AudioBuffer
=============================================================================
