-------------------------- MODULE MCInvoiceCreation --------------------------
(* Values for the constants of InvoiceCreation. *)
EXTENDS InvoiceCreation, TLC

CONSTANTS i1, i2, m1, m2, sepolia, base_sepolia, devnet, signet, mainnet

\* A native EVM token, one of a handler with a fixed phrase, one of a handler
\* that names no network, a mint and the native coin of one cluster, Bitcoin,
\* and an id without a handler.
AllTokens == {"ETH_SEPOLIA", "USDC_ETH", "ETH_BASE_SEPOLIA", "USDC_DEVNET", "SOL_DEVNET",
              "BTC_SIGNET", "typo"}
Handled == AllTokens \ {"typo"}

Holder == [t \in AllTokens |->
  CASE t = "USDC_ETH" -> mainnet
    [] t = "ETH_BASE_SEPOLIA" -> base_sepolia
    [] t \in {"USDC_DEVNET", "SOL_DEVNET"} -> devnet
    [] t = "BTC_SIGNET" -> signet
    [] OTHER -> sepolia]

Kind == [c \in Clients |->
  CASE c = devnet -> "solana" [] c = signet -> "esplora" [] OTHER -> "evm"]

Mints == [t \in AllTokens |-> IF t = "USDC_DEVNET" THEN "usdc" ELSE NoMint]
\* All merchants signed up with one phrase.
SamePhrase == [m \in Merchants |-> "phrase"]

Alike == Permutations(Invoices) \cup Permutations(Merchants)
=============================================================================
