---------------------------- MODULE MCLLMClient ----------------------------
EXTENDS LLMClient
=============================================================================
