--------------------------- MODULE MCResultPlots ---------------------------
EXTENDS ResultPlots

\* All configurations of the repository.
MCFigures ==
  {plot_config_maps, plot_config_open_create, plot_config_partial_coverage,
   plot_config_pmembench_tx, plot_config_pmemkv}

=============================================================================
