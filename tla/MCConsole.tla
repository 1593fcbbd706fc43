----------------------------- MODULE MCConsole -----------------------------
(* Console with three known models; which of them have a GGUF is the cfg's. *)
EXTENDS Console

KnownModels == <<"qwen", "llama", "mistral">>

=============================================================================
